---- MODULE Spec2Model ----
(***************************************************************************)
(* Specification/option reconciliation engine of the Buyer-Specification   *)
(* creation tool: name normalizer and matcher, option matchers, option set *)
(* reconcilers, spec reconciler, buyer-ISQ selector and the Gemini fetch   *)
(* layer, modelled from src/src/utils/api.ts and                           *)
(* src/src/components/Stage3Results.tsx.                                   *)
(*                                                                         *)
(* Strings are TLA+ strings; a character is a string of length 1.  Numbers *)
(* parsed out of option strings are kept exactly, as integers scaled by    *)
(* 10^FracDigits.                                                          *)
(***************************************************************************)
EXTENDS Integers, Sequences, FiniteSets, TLC

VARIABLES
    \* --- name matcher (isSemanticallySimilar) ---
    variant, spec1, spec2, similar, namePc,
    \* --- option matcher (isSemanticallySimilarOption, api.ts) ---
    opt1, opt2, optSimilar, optPc,
    \* --- findCommonOptionsWithRangeMatching (Stage3Results.tsx) ---
    options1, options2, normName, common, usedIndices, addedValues, backing, coPc,
    \* --- buyer option lists (deduplicateOptions, getBuyerISQOptions, getOptimizedBuyerISQOptions) ---
    stage1Options, stage2Options, boNormName, boResult, boPc,
    \* --- extractCommonAndBuyerSpecs / selectBuyerISQs ---
    stage1AllSpecs, stage2ISQs, rcI, matchedStage1, matchedStage2, pairs,
    commonSpecs, uniqueCommonSpecs, buyerISQs, rcPc,
    \* --- fetchWithRetry / generateStage1WithGemini / extractISQWithGemini ---
    caller, attempt, requests, sleeps, lastStatus, errorMsg, fetchPc, outcome,
    \* --- option lists with malformed values (cleanOptions, findCommonOptionsWithRangeMatching) ---
    rawOptions1, rawOptions2, rawReturned, rawThrew, rawPc,
    \* --- compareResults / findCommonOptions (api.ts) ---
    chatgptAllSpecs, geminiAllSpecs, cmpI, matchedChatgpt, matchedGemini, cmpPairs,
    common_specs, chatgpt_unique_specs, gemini_unique_specs, cmpPc

varsName  == <<variant, spec1, spec2, similar, namePc>>
varsOpt   == <<opt1, opt2, optSimilar, optPc>>
varsCo    == <<options1, options2, normName, common, usedIndices, addedValues, backing, coPc>>
varsBo    == <<stage1Options, stage2Options, boNormName, boResult, boPc>>
varsRc    == <<stage1AllSpecs, stage2ISQs, rcI, matchedStage1, matchedStage2, pairs,
               commonSpecs, uniqueCommonSpecs, buyerISQs, rcPc>>
varsFetch == <<caller, attempt, requests, sleeps, lastStatus, errorMsg, fetchPc, outcome>>
varsRaw   == <<rawOptions1, rawOptions2, rawReturned, rawThrew, rawPc>>
varsCmp   == <<chatgptAllSpecs, geminiAllSpecs, cmpI, matchedChatgpt, matchedGemini, cmpPairs,
               common_specs, chatgpt_unique_specs, gemini_unique_specs, cmpPc>>
varsAux   == <<varsRaw, varsCmp>>
varsMain  == <<varsName, varsOpt, varsCo, varsBo, varsRc, varsFetch>>
vars      == <<varsName, varsOpt, varsCo, varsBo, varsRc, varsFetch, varsAux>>

(***************************************************************************)
(* String primitives (JavaScript String methods used by the source)        *)
(***************************************************************************)

Char(s, i) == SubSeq(s, i, i)

UpperChars == "ABCDEFGHIJKLMNOPQRSTUVWXYZ"
LowerChars == "abcdefghijklmnopqrstuvwxyz"
Digits     == "0123456789"

IsIn(c, chars) == \E k \in 1..Len(chars) : Char(chars, k) = c

IndexIn(c, chars) == CHOOSE k \in 1..Len(chars) : Char(chars, k) = c

LowerChar(c) == IF IsIn(c, UpperChars) THEN Char(LowerChars, IndexIn(c, UpperChars)) ELSE c

RECURSIVE MapLower(_, _)
MapLower(s, i) == IF i > Len(s) THEN "" ELSE LowerChar(Char(s, i)) \o MapLower(s, i + 1)

\* String.prototype.toLowerCase
ToLower(s) == MapLower(s, 1)

IsSpace(c) == c = " "

RECURSIVE TrimLeft(_)
TrimLeft(s) == IF Len(s) > 0 /\ IsSpace(Char(s, 1)) THEN TrimLeft(SubSeq(s, 2, Len(s))) ELSE s

RECURSIVE TrimRight(_)
TrimRight(s) == IF Len(s) > 0 /\ IsSpace(Char(s, Len(s))) THEN TrimRight(SubSeq(s, 1, Len(s) - 1)) ELSE s

\* String.prototype.trim
Trim(s) == TrimRight(TrimLeft(s))

\* s.startsWith(t, i - 1): t occurs in s at position i (1-based)
MatchAt(s, t, i) == i + Len(t) - 1 <= Len(s) /\ SubSeq(s, i, i + Len(t) - 1) = t

\* String.prototype.includes
Includes(s, t) == \E i \in 1..(Len(s) - Len(t) + 1) : MatchAt(s, t, i)

\* Array.prototype.includes / Set.prototype.has over a sequence
Has(seq, x) == \E k \in 1..Len(seq) : seq[k] = x

\* Array.prototype.some(term => s.includes(term))
SomeIncluded(group, s) == \E k \in 1..Len(group) : Includes(s, group[k])

RECURSIVE ReplaceChars(_, _, _, _)
ReplaceChars(s, chars, by, i) ==
    IF i > Len(s) THEN ""
    ELSE (IF IsIn(Char(s, i), chars) THEN by ELSE Char(s, i)) \o ReplaceChars(s, chars, by, i + 1)

\* s.replace(/\s+/g, '')
RemoveSpaces(s) == ReplaceChars(s, " ", "", 1)

\* s.split(/\s+/).filter(w => w.length > 0)
RECURSIVE SplitWords(_, _, _)
SplitWords(s, i, cur) ==
    IF i > Len(s) THEN (IF cur = "" THEN <<>> ELSE <<cur>>)
    ELSE IF IsSpace(Char(s, i))
         THEN (IF cur = "" THEN <<>> ELSE <<cur>>) \o SplitWords(s, i + 1, "")
         ELSE SplitWords(s, i + 1, cur \o Char(s, i))

\* words.join(' ')
RECURSIVE JoinWords(_)
JoinWords(words) ==
    IF Len(words) = 0 THEN ""
    ELSE IF Len(words) = 1 THEN words[1]
    ELSE words[1] \o " " \o JoinWords(Tail(words))

\* [...new Set(words)]: first occurrences, in order
RECURSIVE Unique(_, _)
Unique(words, seen) ==
    IF Len(words) = 0 THEN <<>>
    ELSE IF Has(seen, words[1]) THEN Unique(Tail(words), seen)
    ELSE <<words[1]>> \o Unique(Tail(words), Append(seen, words[1]))

\* words.filter(w => !drop.includes(w))
RECURSIVE Without(_, _)
Without(words, drop) ==
    IF Len(words) = 0 THEN <<>>
    ELSE (IF Has(drop, words[1]) THEN <<>> ELSE <<words[1]>>) \o Without(Tail(words), drop)

(***************************************************************************)
(* Name normalizer and name matcher                                        *)
(***************************************************************************)

\* The standardizations dictionary, in insertion order (Object.entries order)
standardizations == <<
    <<"material", "material">>, <<"grade", "grade">>, <<"thk", "thickness">>,
    <<"thickness", "thickness">>, <<"type", "type">>, <<"shape", "shape">>,
    <<"size", "size">>, <<"dimension", "size">>, <<"length", "length">>,
    <<"width", "width">>, <<"height", "height">>, <<"dia", "diameter">>,
    <<"diameter", "diameter">>, <<"color", "color">>, <<"colour", "color">>,
    <<"finish", "finish">>, <<"surface", "finish">>, <<"weight", "weight">>,
    <<"wt", "weight">>, <<"capacity", "capacity">>, <<"brand", "brand">>,
    <<"model", "model">>, <<"quality", "quality">>, <<"standard", "standard">>,
    <<"specification", "spec">>, <<"perforation", "hole">>, <<"hole", "hole">>,
    <<"pattern", "pattern">>, <<"design", "design">>,
    <<"application", "application">>, <<"usage", "application">> >>

\* fillerWords of normalizeSpecName in api.ts
fillerWordsApi == <<"sheet", "plate", "pipe", "rod", "bar", "in", "for", "of", "the">>

\* fillerWords of normalizeSpecName in Stage3Results.tsx
fillerWordsStage3 == <<"sheet", "plate", "pipe", "rod", "bar", "in", "for", "of", "the", "to">>

fillerWords(v) == IF v = "api" THEN fillerWordsApi ELSE fillerWordsStage3

standardizeWordKeep(word) == word

\* the callback of words.map in normalizeSpecName: exact key first, then the
\* first entry with word.includes(key) || key.includes(word), else the word
standardizeWord(word) ==
    IF \E k \in 1..Len(standardizations) : standardizations[k][1] = word
    THEN standardizations[CHOOSE k \in 1..Len(standardizations) : standardizations[k][1] = word][2]
    ELSE LET hits == {k \in 1..Len(standardizations) :
                        \/ Includes(word, standardizations[k][1])
                        \/ Includes(standardizations[k][1], word)}
         IN IF hits = {} THEN word
            ELSE standardizations[CHOOSE k \in hits : \A m \in hits : k <= m][2]

standardizeWords(words) == [k \in 1..Len(words) |-> standardizeWord(words[k])]

normalizeSpecName(v, name) ==
    LET normalized == ReplaceChars(Trim(ToLower(name)), "()-_,.;", " ", 1)
        words == SplitWords(normalized, 1, "")
        uniqueWords == Unique(standardizeWords(words), <<>>)
        filteredWords == Without(uniqueWords, fillerWords(v))
    IN Trim(JoinWords(filteredWords))

synonymGroups == <<
    <<"material", "composition", "fabric">>,
    <<"grade", "quality", "class", "standard">>,
    <<"thickness", "thk", "gauge">>,
    <<"size", "dimension", "measurement">>,
    <<"diameter", "dia", "bore">>,
    <<"length", "long", "lng">>,
    <<"width", "breadth", "wide">>,
    <<"height", "high", "depth">>,
    <<"color", "colour", "shade">>,
    <<"finish", "surface", "coating", "polish">>,
    <<"weight", "wt", "mass">>,
    <<"type", "kind", "variety", "style">>,
    <<"shape", "form", "profile">>,
    <<"hole", "perforation", "aperture">>,
    <<"pattern", "design", "arrangement">>,
    <<"application", "use", "purpose", "usage">> >>

\* the synonym-group loop of isSemanticallySimilar
inSharedGroup(norm1, norm2) ==
    \E g \in 1..Len(synonymGroups) :
        SomeIncluded(synonymGroups[g], norm1) /\ SomeIncluded(synonymGroups[g], norm2)

\* mutant: the containment test in one direction only
oneContainsOtherOneWay(norm1, norm2) == Includes(norm1, norm2)

\* norm1.includes(norm2) || norm2.includes(norm1)
oneContainsOther(norm1, norm2) == Includes(norm1, norm2) \/ Includes(norm2, norm1)

isSemanticallySimilar(v, a, b) ==
    LET norm1 == normalizeSpecName(v, a)
        norm2 == normalizeSpecName(v, b)
    IN \/ norm1 = norm2
       \/ oneContainsOther(norm1, norm2)
       \/ inSharedGroup(norm1, norm2)

(***************************************************************************)
(* Numbers and units inside option strings (regular expressions of api.ts) *)
(***************************************************************************)

\* Largest number of fraction digits of a numeric token in the option pools
FracDigits == 2

RECURSIVE Pow10(_)
Pow10(n) == IF n = 0 THEN 1 ELSE 10 * Pow10(n - 1)

IsDigit(c) == IsIn(c, Digits)

IsDigitAt(s, i) == i >= 1 /\ i <= Len(s) /\ IsDigit(Char(s, i))

RECURSIVE DigitsValue(_, _)
DigitsValue(s, acc) ==
    IF s = "" THEN acc
    ELSE DigitsValue(SubSeq(s, 2, Len(s)), 10 * acc + (IndexIn(Char(s, 1), Digits) - 1))

RECURSIVE PadZeros(_, _)
PadZeros(s, n) == IF Len(s) >= n THEN SubSeq(s, 1, n) ELSE PadZeros(s \o "0", n)

\* end of the digit run that starts at i
RECURSIVE DigitRunEnd(_, _)
DigitRunEnd(s, i) == IF IsDigitAt(s, i + 1) THEN DigitRunEnd(s, i + 1) ELSE i

\* end of the greedy match of \d+(\.\d+)? that starts at the digit at i
NumberEnd(s, i) ==
    LET e == DigitRunEnd(s, i)
    IN IF e + 1 <= Len(s) /\ Char(s, e + 1) = "." /\ IsDigitAt(s, e + 2)
       THEN DigitRunEnd(s, e + 2)
       ELSE e

\* parseFloat of a token matched by \d+(\.\d+)?, scaled by 10^FracDigits
ParseFloat(tok) ==
    LET e == DigitRunEnd(tok, 1)
        frac == IF e < Len(tok) THEN SubSeq(tok, e + 2, Len(tok)) ELSE ""
    IN DigitsValue(SubSeq(tok, 1, e), 0) * Pow10(FracDigits)
         + DigitsValue(PadZeros(frac, FracDigits), 0)

\* str.match(/\d+(?:\.\d+)?/g).map(parseFloat), or [] when there is no match
RECURSIVE extractAllNumbers(_, _)
extractAllNumbers(s, i) ==
    IF i > Len(s) THEN <<>>
    ELSE IF IsDigitAt(s, i)
         THEN <<ParseFloat(SubSeq(s, i, NumberEnd(s, i)))>> \o extractAllNumbers(s, NumberEnd(s, i) + 1)
         ELSE extractAllNumbers(s, i + 1)

\* the value JavaScript null stands for in number fields
NoNumber == -1

\* str.match(/(\d+(\.\d+)?)/): the first numeric token, parsed, or NoNumber
FirstNumber(s) ==
    LET ns == extractAllNumbers(s, 1) IN IF Len(ns) = 0 THEN NoNumber ELSE ns[1]

\* first position at or after i that is not whitespace (\s* is greedy)
RECURSIVE SkipSpaces(_, _)
SkipSpaces(s, i) == IF i <= Len(s) /\ IsSpace(Char(s, i)) THEN SkipSpaces(s, i + 1) ELSE i

\* the alternative of a regex alternation (in order) that matches at i, or ""
FirstAltAt(s, alts, i) ==
    LET hits == {k \in 1..Len(alts) : MatchAt(s, alts[k], i)}
    IN IF hits = {} THEN "" ELSE alts[CHOOSE k \in hits : \A m \in hits : k <= m]

\* the leftmost match of a regex alternation in s, or ""
FirstAlt(s, alts) ==
    LET at == {i \in 1..Len(s) : FirstAltAt(s, alts, i) # ""}
    IN IF at = {} THEN "" ELSE FirstAltAt(s, alts, CHOOSE i \in at : \A m \in at : i <= m)

\* /(?:to|\-|~|up to|upto|from)/i.test(str)
hasRangeConnector(str) ==
    LET s == ToLower(str) IN SomeIncluded(<<"to", "-", "~", "up to", "upto", "from">>, s)

\* the unit alternation of the range regex in extractNumberAndUnit
rangeUnits == <<"mm", "cm", "meter", "millimeter", "centimeter", "inch", "ft", "feet", "\"", "'">>

\* the unit alternation of unitMatch in extractNumberAndUnit
singleUnits == <<"mm", "cm", "meter", "millimeter", "centimeter", "inch", "ft", "feet",
                 "\"", "'", "kg", "g", "l", "ml">>

\* the range regex found no match at this start position
NoRange == [ok |-> FALSE, min |-> NoNumber, max |-> NoNumber, unit |-> ""]

\* ...(\d+(?:\.\d+)?)\s*(unit)? : the second number at r and the captured unit
rangeSecondNumber(s, min, r) ==
    IF IsDigitAt(s, r)
    THEN [ok |-> TRUE, min |-> min,
          max |-> ParseFloat(SubSeq(s, r, NumberEnd(s, r))),
          unit |-> FirstAltAt(s, rangeUnits, SkipSpaces(s, NumberEnd(s, r) + 1))]
    ELSE NoRange

\* ...to\s* : the connector at q
rangeConnector(s, min, q) ==
    IF MatchAt(s, "to", q) THEN rangeSecondNumber(s, min, SkipSpaces(s, q + 2)) ELSE NoRange

\* ...(?:unit)?\s* : an optional unit at q, then the connector
rangeFirstUnit(s, min, q) ==
    IF MatchAt(s, "to", q) THEN rangeConnector(s, min, q)
    ELSE IF FirstAltAt(s, rangeUnits, q) # ""
    THEN rangeConnector(s, min, SkipSpaces(s, q + Len(FirstAltAt(s, rangeUnits, q))))
    ELSE NoRange

\* One attempt of the range regex
\*   (\d+(?:\.\d+)?)\s*(?:unit)?\s*to\s*(\d+(?:\.\d+)?)\s*(unit)?
\* at start position p: [ok, min, max, unit]
rangeMatchAt(s, p) ==
    IF IsDigitAt(s, p)
    THEN rangeFirstUnit(s, ParseFloat(SubSeq(s, p, NumberEnd(s, p))), SkipSpaces(s, NumberEnd(s, p) + 1))
    ELSE NoRange

\* the start positions at which the range regex matches
rangeStarts(str) == {p \in 1..Len(str) : rangeMatchAt(str, p).ok}

\* the leftmost match of the range regex
rangeMatch(str) == rangeMatchAt(str, CHOOSE p \in rangeStarts(str) : \A x \in rangeStarts(str) : p <= x)

\* the record returned for a range: the unit defaults to 'mm'
rangeData(m) ==
    [isRange |-> TRUE, min |-> m.min, max |-> m.max, number |-> NoNumber,
     unit |-> IF m.unit = "" THEN "mm" ELSE m.unit]

\* extractNumberAndUnit (closure of isSemanticallySimilarOption)
extractNumberAndUnit(str) ==
    IF rangeStarts(str) # {}
    THEN rangeData(rangeMatch(str))
    ELSE [isRange |-> FALSE, min |-> NoNumber, max |-> NoNumber,
          number |-> FirstNumber(str), unit |-> FirstAlt(str, singleUnits)]

(***************************************************************************)
(* Option matcher of api.ts: checkRangeMatch, isSemanticallySimilarOption  *)
(***************************************************************************)

\* units of unitsCompatible, in the order getUnit scans them
compatUnitList == <<"mm", "cm", "m", "inch", "ft", "meter", "millimeter", "centimeter">>

\* getUnit: the first listed unit the string includes, or "" for null
getUnit(s) ==
    LET hits == {k \in 1..Len(compatUnitList) : Includes(s, compatUnitList[k])}
    IN IF hits = {} THEN "" ELSE compatUnitList[CHOOSE k \in hits : \A m \in hits : k <= m]

\* the compatibleUnits table as pairs <<unit, alias>>
compatibleUnits == {<<"mm", "millimeter">>, <<"millimeter", "mm">>, <<"cm", "centimeter">>,
                    <<"centimeter", "cm">>, <<"m", "meter">>, <<"meter", "m">>,
                    <<"inch", "\"">>, <<"\"", "inch">>, <<"ft", "feet">>, <<"feet", "ft">>}

unitsCompatible(s1, s2) ==
    LET unit1 == getUnit(s1)
        unit2 == getUnit(s2)
    IN IF unit1 = "" /\ unit2 = "" THEN TRUE
       ELSE IF unit1 = "" \/ unit2 = "" THEN FALSE
       ELSE unit1 = unit2 \/ <<unit1, unit2>> \in compatibleUnits \/ <<unit2, unit1>> \in compatibleUnits

Min2(a, b) == IF a <= b THEN a ELSE b
Max2(a, b) == IF a >= b THEN a ELSE b

\* one direction of checkRangeMatch: rangeStr is a range and some number of
\* the other string lies within the bounds given by its first two numbers
someNumberInRange(rangeStr, otherStr) ==
    LET numsR == extractAllNumbers(rangeStr, 1)
        numsO == extractAllNumbers(otherStr, 1)
    IN /\ hasRangeConnector(rangeStr)
       /\ Len(numsR) >= 2
       /\ \E k \in 1..Len(numsO) :
            /\ numsO[k] >= Min2(numsR[1], numsR[2])
            /\ numsO[k] <= Max2(numsR[1], numsR[2])
            /\ unitsCompatible(rangeStr, otherStr)

checkRangeMatch(str1, str2) ==
    /\ Len(extractAllNumbers(str1, 1)) > 0
    /\ Len(extractAllNumbers(str2, 1)) > 0
    /\ (someNumberInRange(str1, str2) \/ someNumberInRange(str2, str1))

\* the equivalences table: each entry is [base, ...alts]
equivalences == <<
    <<"201", "ss201", "ss 201">>,
    <<"202", "ss202", "ss 202">>,
    <<"304", "304l", "304h", "304n", "304 stainless", "stainless 304", "ss304", "ss 304">>,
    <<"316", "316l", "316ti", "316 stainless", "stainless 316", "ss316", "ss 316">>,
    <<"430", "ss430", "ss 430">>,
    <<"ss304", "ss 304", "stainless steel 304">>,
    <<"ss316", "ss 316", "stainless steel 316">>,
    <<"ms", "mild steel", "mildsteel", "carbon steel">>,
    <<"gi", "galvanized iron">>,
    <<"aluminium", "aluminum">>,
    <<"mm", "millimeter", "millimetre", "millimeters">>,
    <<"cm", "centimeter", "centimetre", "centimeters">>,
    <<"m", "meter", "metre", "meters">>,
    <<"inch", "inches", "\"">>,
    <<"ft", "feet", "foot">>,
    <<"standard", "std", "regular", "normal">>,
    <<"premium", "high quality", "superior">>,
    <<"economy", "budget", "low cost">>,
    <<"2b", "2b finish">>,
    <<"ba", "bright annealed">>,
    <<"mirror", "mirror finish", "polished">>,
    <<"hairline", "hairline finish", "brushed">> >>

\* the loop over the equivalences table: a group with a variant on both
\* sides returns true unless both strings carry numbers that differ
equivalentByTable(clean1, clean2) ==
    \E g \in 1..Len(equivalences) :
        /\ SomeIncluded(equivalences[g], clean1)
        /\ SomeIncluded(equivalences[g], clean2)
        /\ ~( /\ FirstNumber(clean1) # NoNumber
              /\ FirstNumber(clean2) # NoNumber
              /\ FirstNumber(clean1) # FirstNumber(clean2) )

\* (!data1.unit || !data2.unit || data1.unit === data2.unit)
unitsAgree(data1, data2) == data1.unit = "" \/ data2.unit = "" \/ data1.unit = data2.unit

\* hasMm / hasCm / hasInch / hasFt of the single-value branch
hasMm(c)   == Includes(c, "mm") \/ Includes(c, "millimeter")
hasCm(c)   == Includes(c, "cm") \/ Includes(c, "centimeter")
hasInch(c) == Includes(c, "inch") \/ Includes(c, "\"")
hasFt(c)   == Includes(c, "ft") \/ Includes(c, "feet")

sameUnitFamily(clean1, clean2) ==
    \/ hasMm(clean1) /\ hasMm(clean2)
    \/ hasCm(clean1) /\ hasCm(clean2)
    \/ hasInch(clean1) /\ hasInch(clean2)
    \/ hasFt(clean1) /\ hasFt(clean2)

bothUnitless(clean1, clean2) ==
    /\ ~hasMm(clean1) /\ ~hasCm(clean1) /\ ~hasInch(clean1) /\ ~hasFt(clean1)
    /\ ~hasMm(clean2) /\ ~hasCm(clean2) /\ ~hasInch(clean2) /\ ~hasFt(clean2)

\* a number field that JavaScript treats as truthy: not null and not 0
Truthy(n) == n # NoNumber /\ n # 0

\* the single value lies within the range and the units agree
valueInRange(range, single) ==
    /\ single.number # NoNumber
    /\ single.number >= range.min
    /\ single.number <= range.max
    /\ unitsAgree(range, single)

\* data1.max >= data2.min && data2.max >= data1.min, and the units agree
rangesOverlap(data1, data2) ==
    data1.max >= data2.min /\ data2.max >= data1.min /\ unitsAgree(data1, data2)

\* the if / else-if chain on data1, data2: "true" and "false" are returns,
\* "next" falls through to the equivalences table
verdictOf(clean1, clean2, data1, data2) ==
    CASE data1.isRange /\ ~data2.isRange ->
            IF valueInRange(data1, data2) THEN "true" ELSE "next"
      [] ~data1.isRange /\ data2.isRange ->
            IF valueInRange(data2, data1) THEN "true" ELSE "next"
      [] data1.isRange /\ data2.isRange ->
            IF rangesOverlap(data1, data2) THEN "true" ELSE "next"
      [] OTHER ->
            IF ~(Truthy(data1.number) /\ Truthy(data2.number)) THEN "next"
            ELSE IF data1.number # data2.number THEN "false"
            ELSE IF sameUnitFamily(clean1, clean2) \/ bothUnitless(clean1, clean2) THEN "true"
            ELSE "next"

numericVerdict(clean1, clean2) ==
    verdictOf(clean1, clean2, extractNumberAndUnit(clean1), extractNumberAndUnit(clean2))

\* clean1.includes(clean2) || clean2.includes(clean1)
optionContainsOther(clean1, clean2) == Includes(clean1, clean2) \/ Includes(clean2, clean1)

isSemanticallySimilarOption(o1, o2) ==
    LET clean1 == Trim(ToLower(o1))
        clean2 == Trim(ToLower(o2))
    IN IF o1 = "" \/ o2 = "" THEN FALSE
       ELSE IF clean1 = clean2 THEN TRUE
       ELSE IF optionContainsOther(clean1, clean2) THEN TRUE
       ELSE IF checkRangeMatch(clean1, clean2) THEN TRUE
       ELSE IF numericVerdict(clean1, clean2) = "true" THEN TRUE
       ELSE IF numericVerdict(clean1, clean2) = "false" THEN FALSE
       ELSE equivalentByTable(clean1, clean2)

(***************************************************************************)
(* Option set reconciler of Stage3Results.tsx:                             *)
(* findCommonOptionsWithRangeMatching, areOptionsSimilar                   *)
(***************************************************************************)

\* opt.trim().toLowerCase()
Clean(o) == ToLower(Trim(o))

\* the least element of a set of indices, or 0 (findIndex's -1) when empty
FirstOf(S) == IF S = {} THEN 0 ELSE CHOOSE j \in S : \A m \in S : j <= m

\* extractValue: the first numeric token, or NoNumber for null
extractValue(option) == FirstNumber(option)

\* isValueInRange's regex (\d+(\.\d+)?)\s*(?:to|-)\s*(\d+(\.\d+)?), one attempt
\* at start position p.  (The en-dash alternative of the source is outside
\* the ASCII option strings of this model.)
valueRangeSecond(s, min, r) ==
    IF IsDigitAt(s, r)
    THEN [ok |-> TRUE, min |-> min, max |-> ParseFloat(SubSeq(s, r, NumberEnd(s, r))), unit |-> ""]
    ELSE NoRange

valueRangeConnector(s, min, q) ==
    IF MatchAt(s, "to", q) THEN valueRangeSecond(s, min, SkipSpaces(s, q + 2))
    ELSE IF MatchAt(s, "-", q) THEN valueRangeSecond(s, min, SkipSpaces(s, q + 1))
    ELSE NoRange

valueRangeAt(s, p) ==
    IF IsDigitAt(s, p)
    THEN valueRangeConnector(s, ParseFloat(SubSeq(s, p, NumberEnd(s, p))), SkipSpaces(s, NumberEnd(s, p) + 1))
    ELSE NoRange

valueRangeStarts(s) == {p \in 1..Len(s) : valueRangeAt(s, p).ok}

valueRangeMatch(s) == valueRangeAt(s, FirstOf(valueRangeStarts(s)))

withinBounds(value, m) == value >= m.min /\ value <= m.max

isValueInRange(value, rangeStr) ==
    /\ valueRangeStarts(ToLower(rangeStr)) # {}
    /\ withinBounds(value, valueRangeMatch(ToLower(rangeStr)))

materialGroups == <<
    <<"304", "ss304", "ss 304", "stainless steel 304">>,
    <<"316", "ss316", "ss 316", "stainless steel 316">>,
    <<"430", "ss430", "ss 430">>,
    <<"201", "ss201", "ss 201">>,
    <<"202", "ss202", "ss 202">>,
    <<"310", "ss310", "ss 310">>,
    <<"304l", "304 l">>,
    <<"316l", "316 l">>,
    <<"ms", "mild steel", "carbon steel">>,
    <<"gi", "galvanized iron">>,
    <<"aluminium", "aluminum">>,
    <<"is 2062 e250", "e250">>,
    <<"is 2062 e350", "e350">>,
    <<"is 2062 e410", "e410">>,
    <<"astm a36", "a36">>,
    <<"jis g3101 ss400", "ss400">>,
    <<"en s275jr", "s275jr">>,
    <<"en s355jr", "s355jr">> >>

brandGroups == <<
    <<"sail", "steel authority of india">>,
    <<"tata steel", "tata">>,
    <<"jsw steel", "jsw">>,
    <<"essar steel", "essar">>,
    <<"jindal steel", "jindal">>,
    <<"bhushan steel", "bhushan">>,
    <<"jspl", "jindal steel & power">>,
    <<"arcelormittal", "arcelor mittal">> >>

finishGroups == <<
    <<"hot rolled black", "hot rolled", "black">>,
    <<"pickled & oiled", "pickled", "oiled">>,
    <<"shot blasted", "shot blast">>,
    <<"descaled", "descaling">>,
    <<"mill finish", "mill">>,
    <<"polished", "mirror">>,
    <<"galvanized", "gi", "galvanize">>,
    <<"anodized", "anodize">>,
    <<"painted", "coated">> >>

\* for (const group of groups): a term of the group on both sides
inSomeGroup(groups, clean1, clean2) ==
    \E g \in 1..Len(groups) : SomeIncluded(groups[g], clean1) /\ SomeIncluded(groups[g], clean2)

areOptionsSimilar(o1, o2) ==
    IF o1 = "" \/ o2 = "" THEN FALSE
    ELSE \/ Trim(ToLower(o1)) = Trim(ToLower(o2))
         \/ inSomeGroup(materialGroups, Trim(ToLower(o1)), Trim(ToLower(o2)))
         \/ inSomeGroup(brandGroups, Trim(ToLower(o1)), Trim(ToLower(o2)))
         \/ inSomeGroup(finishGroups, Trim(ToLower(o1)), Trim(ToLower(o2)))

\* the terms whose presence in the normalized name makes a spec a range spec
rangeTerms == <<"thickness", "width", "length", "diameter", "size">>

isRangeSpec(norm) == SomeIncluded(rangeTerms, norm)

\* the local state of findCommonOptionsWithRangeMatching; backing[k] is the
\* target index that was consumed when common[k] was pushed
EmptyCommon == [common |-> <<>>, used |-> {}, added |-> {}, backing |-> <<>>]

\* common.push(opt); usedIndices.add(j); addedValues.add(clean(opt))
Emit(st, opt, j) ==
    [common |-> Append(st.common, opt), used |-> st.used \cup {j},
     added |-> st.added \cup {Clean(opt)}, backing |-> Append(st.backing, j)]

EmitIfFound(st, opt, j) == IF j # 0 THEN Emit(st, opt, j) ELSE st

\* options2.findIndex of the first pass
exactMatchIndex(o1, opts2, used) ==
    FirstOf({j \in 1..Len(opts2) : j \notin used /\ Clean(opts2[j]) = Clean(o1)})

\* one iteration of the first pass
exactStep(st, o1, opts2) ==
    IF Clean(o1) \in st.added THEN st
    ELSE EmitIfFound(st, o1, exactMatchIndex(o1, opts2, st.used))

\* options2.findIndex of the range-to-discrete pass
rangeMatchIndex(o1, opts2, used) ==
    FirstOf({j \in 1..Len(opts2) : j \notin used /\ isValueInRange(extractValue(o1), opts2[j])})

\* one iteration of the range-to-discrete pass
rangeForwardStep(st, o1, opts2) ==
    IF Clean(o1) \in st.added \/ extractValue(o1) = NoNumber THEN st
    ELSE EmitIfFound(st, o1, rangeMatchIndex(o1, opts2, st.used))

\* options1.find(opt1 => isValueInRange(value2, opt1)) finds a range
coveredBySource(o2, opts1) ==
    \E i \in 1..Len(opts1) : isValueInRange(extractValue(o2), opts1[i])

rangeReverseStepNoGuard(st, j, opts1, opts2) ==
    IF j \in st.used \/ extractValue(opts2[j]) = NoNumber THEN st
    ELSE IF coveredBySource(opts2[j], opts1)
    THEN Emit(st, opts2[j], j)
    ELSE st

\* one iteration of the reverse pass: the target option itself is pushed
rangeReverseStep(st, j, opts1, opts2) ==
    IF j \in st.used \/ extractValue(opts2[j]) = NoNumber THEN st
    ELSE IF coveredBySource(opts2[j], opts1) /\ Clean(opts2[j]) \notin st.added
    THEN Emit(st, opts2[j], j)
    ELSE st

semanticMatchIndexAnyTarget(o1, opts2, used) ==
    FirstOf({j \in 1..Len(opts2) : areOptionsSimilar(o1, opts2[j])})

\* the inner options2.forEach of the third pass: the first unused target
\* index whose option is similar
semanticMatchIndex(o1, opts2, used) ==
    FirstOf({j \in 1..Len(opts2) : j \notin used /\ areOptionsSimilar(o1, opts2[j])})

\* one iteration of the third pass
semanticStep(st, o1, opts2) ==
    IF Clean(o1) \in st.added THEN st
    ELSE EmitIfFound(st, o1, semanticMatchIndex(o1, opts2, st.used))

RECURSIVE exactPassBackwards(_, _, _, _)
exactPassBackwards(st, opts1, opts2, i) ==
    IF i > Len(opts1) THEN st
    ELSE exactPassBackwards(exactStep(st, opts1[Len(opts1) - i + 1], opts2),
                            opts1, opts2, i + 1)

RECURSIVE exactPass(_, _, _, _)
exactPass(st, opts1, opts2, i) ==
    IF i > Len(opts1) THEN st
    ELSE exactPass(exactStep(st, opts1[i], opts2), opts1, opts2, i + 1)

RECURSIVE rangeForwardPass(_, _, _, _)
rangeForwardPass(st, opts1, opts2, i) ==
    IF i > Len(opts1) THEN st
    ELSE rangeForwardPass(rangeForwardStep(st, opts1[i], opts2), opts1, opts2, i + 1)

RECURSIVE rangeReversePass(_, _, _, _)
rangeReversePass(st, opts1, opts2, j) ==
    IF j > Len(opts2) THEN st
    ELSE rangeReversePass(rangeReverseStep(st, j, opts1, opts2), opts1, opts2, j + 1)

RECURSIVE semanticPass(_, _, _, _)
semanticPass(st, opts1, opts2, i) ==
    IF i > Len(opts1) THEN st
    ELSE semanticPass(semanticStep(st, opts1[i], opts2), opts1, opts2, i + 1)

\* the second pass, run only for range specs
rangePasses(st, opts1, opts2, norm) ==
    IF isRangeSpec(norm)
    THEN rangeReversePass(rangeForwardPass(st, opts1, opts2, 1), opts1, opts2, 1)
    ELSE st

\* the local state at the return statement
commonOptionsState(opts1, opts2, norm) ==
    semanticPass(rangePasses(exactPass(EmptyCommon, opts1, opts2, 1), opts1, opts2, norm),
                 opts1, opts2, 1)

findCommonOptionsWithRangeMatching(opts1, opts2, norm) ==
    commonOptionsState(opts1, opts2, norm).common

(***************************************************************************)
(* Buyer ISQ option lists: deduplicateOptions (Stage3Results.tsx),         *)
(* getBuyerISQOptions (api.ts), getOptimizedBuyerISQOptions                *)
(* (Stage3Results.tsx)                                                     *)
(***************************************************************************)

\* seq.slice(0, n)
Take(seq, n) == SubSeq(seq, 1, Min2(n, Len(seq)))

\* the loop of deduplicateOptions: first occurrences under trim + lower case
RECURSIVE dedupFrom(_, _, _, _)
dedupFrom(options, i, unique, seen) ==
    IF i > Len(options) THEN unique
    ELSE IF Clean(options[i]) \in seen THEN dedupFrom(options, i + 1, unique, seen)
    ELSE dedupFrom(options, i + 1, Append(unique, options[i]), seen \cup {Clean(options[i])})

deduplicateOptionsUncapped(options) == dedupFrom(options, 1, <<>>, {})

deduplicateOptions(options) == Take(dedupFrom(options, 1, <<>>, {}), 8)

\* const result = []; const seen = new Set()
NoOptions == [result |-> <<>>, seen |-> {}]

\* if (result.length >= 8) break; if (!seen.has(key)) { result.push(opt); seen.add(key) }
\* (a full result stays full, so the break is the same guard on every later item)
pushUnseen(st, opt, key) ==
    IF Len(st.result) >= 8 \/ key \in st.seen THEN st
    ELSE [result |-> Append(st.result, opt), seen |-> st.seen \cup {key}]

\* options.find(o => o.trim().toLowerCase() === clean(opt)) as an index, 0 if none
firstExact(opt, options) == FirstOf({k \in 1..Len(options) : Clean(options[k]) = Clean(opt)})

\* step 1 of getBuyerISQOptions: Stage 1 options that are also Stage 2 options
RECURSIVE addCommonOptions(_, _, _, _)
addCommonOptions(st, s1Opts, s2Opts, i) ==
    IF i > Len(s1Opts) THEN st
    ELSE addCommonOptions(
             IF firstExact(s1Opts[i], s2Opts) # 0
             THEN pushUnseen(st, Trim(s1Opts[i]), ToLower(Trim(s1Opts[i])))
             ELSE st,
             s1Opts, s2Opts, i + 1)

\* steps 2 and 3 of getBuyerISQOptions: every option not seen yet
RECURSIVE addOptions(_, _, _)
addOptions(st, opts, i) ==
    IF i > Len(opts) THEN st
    ELSE addOptions(pushUnseen(st, opts[i], ToLower(opts[i])), opts, i + 1)

fallbacks == <<
    <<"material", <<"SS 304", "SS 316", "Mild Steel", "Galvanized Iron",
                    "Aluminium", "Copper", "Brass", "PVC", "Carbon Steel">> >>,
    <<"grade", <<"304", "316", "430", "201", "202", "304L", "316L",
                 "Grade A", "Grade B", "Commercial", "Industrial">> >>,
    <<"thickness", <<"1mm", "2mm", "3mm", "5mm", "10mm", "15mm", "20mm", "25mm",
                     "0.5mm", "1.5mm", "4mm", "6mm", "8mm">> >>,
    <<"diameter", <<"15mm", "20mm", "25mm", "32mm", "40mm", "50mm",
                    "1/2\"", "3/4\"", "1\"", "2\"", "3\"", "4\"">> >>,
    <<"size", <<"Small", "Medium", "Large", "Extra Large",
                "Sheet", "Plate", "Coil", "Pipe", "Rod">> >>,
    <<"length", <<"6m", "12m", "Random", "Custom",
                  "3ft", "6ft", "10ft", "20ft", "1m", "2m">> >>,
    <<"width", <<"1000mm", "1250mm", "1500mm", "2000mm", "3ft", "4ft", "5ft", "6ft">> >>,
    <<"height", <<"1000mm", "1500mm", "2000mm", "2500mm", "3ft", "4ft", "5ft", "6ft">> >>,
    <<"color", <<"White", "Black", "Blue", "Red", "Green", "Yellow",
                 "Gray", "Silver", "Gold", "Brown">> >>,
    <<"finish", <<"Mill Finish", "Polished", "Galvanized", "Brushed",
                  "Coated", "Painted", "Anodized", "Matt">> >>,
    <<"type", <<"Standard", "Premium", "Economy", "Commercial",
                "Industrial", "Heavy Duty", "Light Duty", "Custom">> >>,
    <<"shape", <<"Round", "Square", "Rectangular", "Hexagonal",
                 "Flat", "Angle", "Channel", "Pipe">> >>,
    <<"weight", <<"1kg", "5kg", "10kg", "25kg", "50kg", "100kg", "500kg", "1000kg">> >>,
    <<"capacity", <<"10L", "20L", "50L", "100L", "200L", "500L", "1000L", "2000L">> >>,
    <<"brand", <<"Tata", "Jindal", "SAIL", "Essar", "Hindalco",
                 "Godrej", "Asian Paints", "Berger">> >>,
    <<"quality", <<"Grade A", "Grade B", "Commercial", "Industrial",
                   "Premium", "Standard", "Economy", "Export Quality">> >> >>

defaultFallbacks == <<"Standard", "Premium", "Economy", "Commercial",
                      "Industrial", "Custom", "Type A", "Type B",
                      "Small", "Medium", "Large", "Extra Large">>

\* the index of the first key of the table that the normalized name includes
fallbackKey(norm) == FirstOf({k \in 1..Len(fallbacks) : Includes(norm, fallbacks[k][1])})

\* a table without any fallback list
noFallbacks(norm) == <<>>

getSmartFallbacks(norm) ==
    IF fallbackKey(norm) # 0 THEN fallbacks[fallbackKey(norm)][2] ELSE defaultFallbacks

\* stageAll.find(s => s.normName === normName)?.options || []
optionsFor(stageAll, norm) ==
    IF \E k \in 1..Len(stageAll) : stageAll[k].normName = norm
    THEN stageAll[FirstOf({k \in 1..Len(stageAll) : stageAll[k].normName = norm})].options
    ELSE <<>>

TrimAll(opts) == [k \in 1..Len(opts) |-> Trim(opts[k])]

buyerOptionsFromTarget(norm, s1Opts, s2Opts) ==
    addOptions(addOptions(addCommonOptions(NoOptions, s1Opts, s2Opts, 1), TrimAll(s1Opts), 1),
               TrimAll(s2Opts), 1).result

\* the three steps of getBuyerISQOptions on the two option lists
buyerOptionsFrom(norm, s1Opts, s2Opts) ==
    addOptions(addOptions(addCommonOptions(NoOptions, s1Opts, s2Opts, 1), TrimAll(s1Opts), 1),
               getSmartFallbacks(norm), 1).result

getBuyerISQOptions(norm, stage1All, stage2All) ==
    buyerOptionsFrom(norm, optionsFor(stage1All, norm), optionsFor(stage2All, norm))

strongMaterialGroups == <<
    <<"304", "ss304", "ss 304", "stainless steel 304">>,
    <<"316", "ss316", "ss 316", "stainless steel 316">>,
    <<"430", "ss430", "ss 430">>,
    <<"201", "ss201", "ss 201">>,
    <<"202", "ss202", "ss 202">>,
    <<"ms", "mild steel", "carbon steel">>,
    <<"gi", "galvanized iron">>,
    <<"aluminium", "aluminum">> >>

shapeGroups == <<
    <<"round", "circular", "circle">>,
    <<"square", "squared">>,
    <<"rectangular", "rectangle">>,
    <<"hexagonal", "hexagon">>,
    <<"flat", "flat bar">>,
    <<"angle", "l shape", "l-shaped">>,
    <<"channel", "c shape", "c-shaped">>,
    <<"pipe", "tube", "tubular">>,
    <<"slotted", "slot">> >>

\* \w at position i (false outside the string)
IsWordCharAt(s, i) ==
    i >= 1 /\ i <= Len(s) /\ IsIn(LowerChar(Char(s, i)), LowerChars \o Digits \o "_")

\* the start positions of the matches of \b(\d+)\b: whole runs of digits with
\* no word character on either side
wordNumberStarts(s) ==
    {p \in 1..Len(s) : /\ IsDigitAt(s, p)
                       /\ ~IsWordCharAt(s, p - 1)
                       /\ ~IsWordCharAt(s, DigitRunEnd(s, p) + 1)}

\* s.match(/\b(\d+)\b/)?.[1], "" for undefined
wordNumber(s) ==
    IF wordNumberStarts(s) = {} THEN ""
    ELSE SubSeq(s, FirstOf(wordNumberStarts(s)), DigitRunEnd(s, FirstOf(wordNumberStarts(s))))

\* num1 && num2 && num1 !== num2
numbersConflict(clean1, clean2) ==
    wordNumber(clean1) # "" /\ wordNumber(clean2) # "" /\ wordNumber(clean1) # wordNumber(clean2)

measureUnits == <<"mm", "cm", "m", "inch", "in", "ft", "\"", "'">>

\* ten times the factor getMeasurement multiplies the value by
unitFactor10(unit) ==
    IF unit = "cm" THEN 100
    ELSE IF unit = "m" THEN 10000
    ELSE IF unit \in {"inch", "in", "\""} THEN 254
    ELSE IF unit \in {"ft", "'"} THEN 3048
    ELSE 10

\* the measurement of the number that starts at p, in units of 10^-(FracDigits+1) mm
measurementAt(str, p) ==
    ParseFloat(SubSeq(str, p, NumberEnd(str, p)))
        * unitFactor10(FirstAltAt(str, measureUnits, SkipSpaces(str, NumberEnd(str, p) + 1)))

\* getMeasurement, NoNumber for null
getMeasurement(str) ==
    IF \E p \in 1..Len(str) : IsDigitAt(str, p)
    THEN measurementAt(str, FirstOf({p \in 1..Len(str) : IsDigitAt(str, p)}))
    ELSE NoNumber

Abs(n) == IF n < 0 THEN -n ELSE n

\* meas1 && meas2 && Math.abs(meas1 - meas2) < 0.01
measurementsAgree(meas1, meas2) ==
    Truthy(meas1) /\ Truthy(meas2) /\ Abs(meas1 - meas2) * 100 < Pow10(FracDigits + 1)

\* areOptionsStronglySimilar after the two falsy checks, on the cleaned options
stronglySimilarClean(clean1, clean2) ==
    IF clean1 = clean2 \/ RemoveSpaces(clean1) = RemoveSpaces(clean2) THEN TRUE
    ELSE IF inSomeGroup(strongMaterialGroups, clean1, clean2)
    THEN ~numbersConflict(clean1, clean2)
    ELSE \/ measurementsAgree(getMeasurement(clean1), getMeasurement(clean2))
         \/ inSomeGroup(shapeGroups, clean1, clean2)

areOptionsStronglySimilar(o1, o2) ==
    IF o1 = "" \/ o2 = "" THEN FALSE
    ELSE stronglySimilarClean(Trim(ToLower(o1)), Trim(ToLower(o2)))

\* step 1 of getOptimizedBuyerISQOptions; exactMatch is tested for truthiness
RECURSIVE addExactMatches(_, _, _, _)
addExactMatches(st, s1Opts, s2Opts, i) ==
    IF i > Len(s1Opts) THEN st
    ELSE addExactMatches(
             IF firstExact(s1Opts[i], s2Opts) # 0 /\ s2Opts[firstExact(s1Opts[i], s2Opts)] # ""
             THEN pushUnseen(st, s1Opts[i], Clean(s1Opts[i]))
             ELSE st,
             s1Opts, s2Opts, i + 1)

\* step 2 of getOptimizedBuyerISQOptions
RECURSIVE addStrongMatches(_, _, _, _)
addStrongMatches(st, s1Opts, s2Opts, i) ==
    IF i > Len(s1Opts) THEN st
    ELSE addStrongMatches(
             IF \E k \in 1..Len(s2Opts) : areOptionsStronglySimilar(s1Opts[i], s2Opts[k])
             THEN pushUnseen(st, s1Opts[i], Clean(s1Opts[i]))
             ELSE st,
             s1Opts, s2Opts, i + 1)

\* stage1Options.filter(opt => !seen.has(clean(opt)))
RECURSIVE unseenOptions(_, _, _)
unseenOptions(opts, seen, i) ==
    IF i > Len(opts) THEN <<>>
    ELSE (IF Clean(opts[i]) \in seen THEN <<>> ELSE <<opts[i]>>) \o unseenOptions(opts, seen, i + 1)

\* step 3 of getOptimizedBuyerISQOptions: result after the remaining Stage 1
\* options were pushed (seen is not read again after this step)
addRemaining(st, s1Opts) ==
    IF Len(st.result) < 8
    THEN st.result \o Take(unseenOptions(s1Opts, st.seen, 1), 8 - Len(st.result))
    ELSE st.result

getOptimizedBuyerISQOptions(s1Opts, s2Opts, norm) ==
    Take(dedupFrom(addRemaining(addStrongMatches(addExactMatches(NoOptions, s1Opts, s2Opts, 1),
                                                 s1Opts, s2Opts, 1), s1Opts),
                   1, <<>>, {}), 8)

(***************************************************************************)
(* Spec reconciler and buyer ISQ selector of Stage3Results.tsx:            *)
(* extractCommonAndBuyerSpecs, selectBuyerISQs                             *)
(***************************************************************************)

bestMatchIndexAnyTarget(spec_name, isqs, matched) ==
    FirstOf({j \in 1..Len(isqs) : isSemanticallySimilar("stage3", spec_name, isqs[j].name)})

bestMatchIndexLast(spec_name, isqs, matched) ==
    LET hits == {j \in 1..Len(isqs) :
                    j \notin matched /\ isSemanticallySimilar("stage3", spec_name, isqs[j].name)}
    IN IF hits = {} THEN 0 ELSE CHOOSE j \in hits : \A m \in hits : j >= m

bestMatchIndexFirstFree(spec_name, isqs, matched) ==
    FirstOf({j \in 1..Len(isqs) : j \notin matched})

\* the inner stage2ISQs.forEach: the first Stage 2 index that is not matched
\* yet and whose name is similar, 0 for the initial -1
bestMatchIndex(spec_name, isqs, matched) ==
    FirstOf({j \in 1..Len(isqs) :
                j \notin matched /\ isSemanticallySimilar("stage3", spec_name, isqs[j].name)})

\* the CommonSpecItem built for a Stage 1 spec and the options of its match
commonSpecOf(stage1Spec, bestMatchOptions) ==
    [spec_name  |-> stage1Spec.spec_name,
     options    |-> findCommonOptionsWithRangeMatching(stage1Spec.options, bestMatchOptions,
                                                       stage1Spec.normName),
     input_type |-> stage1Spec.input_type,
     category   |-> stage1Spec.tier]

pushCommonSpecIfOptions(specs, item) == IF item.options = <<>> THEN specs ELSE Append(specs, item)

\* commonSpecs.push({...})
pushCommonSpec(specs, item) == Append(specs, item)

\* findIndex(s => s.spec_name === name), as a 1-based index
firstWithName(specs, name) == FirstOf({m \in 1..Len(specs) : specs[m].spec_name = name})

keepAllSpecs(specs, i) == specs

\* commonSpecs.filter((spec, index, self) => index === self.findIndex(same name)), from index i on
RECURSIVE uniqueByName(_, _)
uniqueByName(specs, i) ==
    IF i > Len(specs) THEN <<>>
    ELSE (IF firstWithName(specs, specs[i].spec_name) = i THEN <<specs[i]>> ELSE <<>>)
         \o uniqueByName(specs, i + 1)

importantSpecs == <<"grade", "thickness", "material", "size", "width", "length">>

\* the score selectBuyerISQs gives a common spec
specScore(spec) ==
    (IF spec.category = "Primary" THEN 10 ELSE 0)
    + (IF spec.category = "Secondary" THEN 5 ELSE 0)
    + Min2(Len(spec.options), 10)
    + (IF SomeIncluded(importantSpecs, ToLower(spec.spec_name)) THEN 5 ELSE 0)

lastBest(specs) ==
    FirstOf({k \in 1..Len(specs) :
                /\ \A m \in 1..Len(specs) : specScore(specs[k]) >= specScore(specs[m])
                /\ \A m \in (k + 1)..Len(specs) : specScore(specs[k]) > specScore(specs[m])})

\* the index of the first spec with the highest score
firstBest(specs) ==
    FirstOf({k \in 1..Len(specs) : \A m \in 1..Len(specs) : specScore(specs[k]) >= specScore(specs[m])})

RemoveAt(seq, k) == SubSeq(seq, 1, k - 1) \o SubSeq(seq, k + 1, Len(seq))

\* scoredSpecs.sort((a, b) => b.score - a.score): descending and stable
RECURSIVE sortByScore(_)
sortByScore(specs) ==
    IF specs = <<>> THEN <<>>
    ELSE <<specs[firstBest(specs)]>> \o sortByScore(RemoveAt(specs, firstBest(specs)))

\* .map(spec => ({spec_name, options: deduplicateOptions(spec.options), category}))
buyerISQOf(spec) ==
    [spec_name |-> spec.spec_name, options |-> deduplicateOptions(spec.options),
     category |-> spec.category]

selectBuyerISQsAll(specs) ==
    [k \in 1..Len(specs) |-> buyerISQOf(sortByScore(specs)[k])]

selectBuyerISQs(specs) ==
    [k \in 1..Min2(2, Len(specs)) |-> buyerISQOf(Take(sortByScore(specs), 2)[k])]

\* the specs kept by if (s.options && s.options.length > 0)
RECURSIVE withOptions(_, _)
withOptions(specs, i) ==
    IF i > Len(specs) THEN <<>>
    ELSE (IF Len(specs[i].options) > 0 THEN <<specs[i]>> ELSE <<>>) \o withOptions(specs, i + 1)

\* stage1All of selectStage3BuyerISQs: the Stage 1 specs that have options
flattenStage1(specs) ==
    [k \in 1..Len(withOptions(specs, 1)) |->
        [name     |-> withOptions(specs, 1)[k].spec_name,
         options  |-> withOptions(specs, 1)[k].options,
         tier     |-> withOptions(specs, 1)[k].tier,
         normName |-> normalizeSpecName("api", withOptions(specs, 1)[k].spec_name)]]

\* stage2All of selectStage3BuyerISQs: config and keys that have options
flattenStage2(isqs) ==
    [k \in 1..Len(withOptions(isqs, 1)) |->
        [name     |-> withOptions(isqs, 1)[k].name,
         options  |-> withOptions(isqs, 1)[k].options,
         normName |-> normalizeSpecName("api", withOptions(isqs, 1)[k].name)]]

\* stage1All.filter(s1 => stage2All.some(s2 => s2.normName === s1.normName))
RECURSIVE sameNormSpecs(_, _, _)
sameNormSpecs(stage1All, stage2All, i) ==
    IF i > Len(stage1All) THEN <<>>
    ELSE (IF \E j \in 1..Len(stage2All) : stage2All[j].normName = stage1All[i].normName
          THEN <<stage1All[i]>> ELSE <<>>)
         \o sameNormSpecs(stage1All, stage2All, i + 1)

\* the loop over the first two common specs: a spec is pushed when its
\* option list has two options or more
RECURSIVE pushBuyers(_, _, _, _)
pushBuyers(specs, stage1All, stage2All, i) ==
    IF i > Min2(2, Len(specs)) THEN <<>>
    ELSE (IF Len(getBuyerISQOptions(specs[i].normName, stage1All, stage2All)) >= 2
          THEN <<[name    |-> specs[i].name,
                  options |-> getBuyerISQOptions(specs[i].normName, stage1All, stage2All)]>>
          ELSE <<>>)
         \o pushBuyers(specs, stage1All, stage2All, i + 1)

selectStage3BuyerISQs(stage1Specs, isqs) ==
    pushBuyers(sameNormSpecs(flattenStage1(stage1Specs), flattenStage2(isqs), 1),
               flattenStage1(stage1Specs), flattenStage2(isqs), 1)

(***************************************************************************)
(* Gemini fetch layer: fetchWithRetry and its two callers                  *)
(***************************************************************************)

\* default value of the retries parameter of fetchWithRetry
retries == 2

\* String(n) for a natural number
RECURSIVE DecimalText(_)
DecimalText(n) ==
    IF n < 10 THEN Char(Digits, n + 1)
    ELSE DecimalText(n \div 10) \o Char(Digits, (n % 10) + 1)

\* default value of the baseDelay parameter of fetchWithRetry, in ms
baseDelay == 5000

\* baseDelay * Math.pow(2, attempt)
waitTime(a) == baseDelay * (2 ^ a)

neverLastAttempt(a) == FALSE

\* attempt === retries
lastAttempt(a) == a = retries

\* response.status === 429 || response.status === 503 || response.status === 502
isOverloaded(status) == status \in {429, 503, 502}

\* message of the Error thrown when the last attempt is still overloaded
overloadedMessage(status) ==
    "Gemini overloaded after " \o DecimalText(retries + 1)
        \o " attempts. Last status code: " \o DecimalText(status)

\* message of the Error thrown for any other non-ok status
apiErrorMessage(status, body) == "Gemini API error " \o DecimalText(status) \o ": " \o body

\* errorMsg.includes("429") || errorMsg.includes("quota")
isQuotaError(msg) == Includes(msg, "429") \/ Includes(msg, "quota")

\* mutant: the catch block never rethrows
catchOutcomeSwallow(msg) == "fallback"

\* the catch block of generateStage1WithGemini / extractISQWithGemini:
\* rethrow a quota error, otherwise return the fallback record
catchOutcome(msg) == IF isQuotaError(msg) THEN "rejected" ELSE "fallback"

(***************************************************************************)
(* Machines not taking part in a specification rest in these states        *)
(***************************************************************************)

IdleName  == variant = "api" /\ spec1 = "" /\ spec2 = "" /\ similar = FALSE /\ namePc = "idle"
IdleOpt   == opt1 = "" /\ opt2 = "" /\ optSimilar = FALSE /\ optPc = "idle"
IdleCo    == /\ options1 = <<>> /\ options2 = <<>> /\ normName = "" /\ common = <<>>
             /\ usedIndices = {} /\ addedValues = {} /\ backing = <<>> /\ coPc = "idle"
IdleBo    == /\ stage1Options = <<>> /\ stage2Options = <<>> /\ boNormName = ""
             /\ boResult = <<>> /\ boPc = "idle"
IdleRc    == /\ stage1AllSpecs = <<>> /\ stage2ISQs = <<>> /\ rcI = 0
             /\ matchedStage1 = {} /\ matchedStage2 = {} /\ pairs = <<>>
             /\ commonSpecs = <<>> /\ uniqueCommonSpecs = <<>> /\ buyerISQs = <<>> /\ rcPc = "idle"
IdleFetch == /\ caller = "none" /\ attempt = 0 /\ requests = <<>> /\ sleeps = <<>>
             /\ lastStatus = 0
             /\ errorMsg = "" /\ fetchPc = "idle" /\ outcome = "none"
IdleRaw   == /\ rawOptions1 = <<>> /\ rawOptions2 = <<>> /\ rawReturned = <<>>
             /\ rawThrew = FALSE /\ rawPc = "idle"
IdleCmp   == /\ chatgptAllSpecs = <<>> /\ geminiAllSpecs = <<>> /\ cmpI = 0
             /\ matchedChatgpt = {} /\ matchedGemini = {} /\ cmpPairs = <<>>
             /\ common_specs = <<>> /\ chatgpt_unique_specs = <<>>
             /\ gemini_unique_specs = <<>> /\ cmpPc = "idle"
IdleAux   == IdleRaw /\ IdleCmp
IdleMain  == IdleName /\ IdleOpt /\ IdleCo /\ IdleBo /\ IdleRc /\ IdleFetch

(***************************************************************************)
(* The name matcher applied to two specification names                     *)
(***************************************************************************)

Variants == {"api", "stage3"}

NamePool == {"Thk (mm)", "Thickness", "Material", "Composition", "Material Grade",
             "Quality", "Pipe", "Colour", "Brand", "Brand Name",
             "Width to Length", "Length", "Thickness in"}

InitName ==
    /\ variant \in Variants
    /\ spec1 \in NamePool
    /\ spec2 \in NamePool
    /\ similar = FALSE
    /\ namePc = "ready"
    /\ IdleOpt /\ IdleCo /\ IdleBo /\ IdleRc /\ IdleFetch /\ IdleAux

CompareNames ==
    /\ namePc = "ready"
    /\ similar' = isSemanticallySimilar(variant, spec1, spec2)
    /\ namePc' = "done"
    /\ UNCHANGED <<variant, spec1, spec2, varsOpt, varsCo, varsBo, varsRc, varsFetch, varsAux>>

NextName == CompareNames

SpecName == InitName /\ [][NextName]_vars

\* C8: the name matcher is commutative: isSemanticallySimilar(a, b) =
\* isSemanticallySimilar(b, a) for all names a and b, in both variants.
NameMatcherCommutative ==
    namePc = "done" => similar = isSemanticallySimilar(variant, spec2, spec1)

\* a match that rests on one normalized name containing the other, in one direction only
NameMatchOneWayContainment ==
    /\ namePc = "done" /\ similar
    /\ Includes(normalizeSpecName(variant, spec1), normalizeSpecName(variant, spec2))
    /\ ~Includes(normalizeSpecName(variant, spec2), normalizeSpecName(variant, spec1))
    /\ ~inSharedGroup(normalizeSpecName(variant, spec1), normalizeSpecName(variant, spec2))

\* C21 (as stated): "Thk (mm)" matches "Thickness", and it does so because
\* the two normalized names are equal.
ThkMatchesThicknessByEquality ==
    (namePc = "done" /\ spec1 = "Thk (mm)" /\ spec2 = "Thickness")
    => /\ similar
       /\ normalizeSpecName(variant, spec1) = normalizeSpecName(variant, spec2)

\* C21 (amended): "Thk (mm)" matches "Thickness" by containment: thk is
\* folded to thickness and the unit survives, so the first normalized name is
\* "thickness mm", which contains the second one, "thickness".
ThkMatchesThicknessByContainment ==
    (namePc = "done" /\ spec1 = "Thk (mm)" /\ spec2 = "Thickness")
    => /\ similar
       /\ normalizeSpecName(variant, spec1) = "thickness mm"
       /\ normalizeSpecName(variant, spec2) = "thickness"
       /\ oneContainsOther(normalizeSpecName(variant, spec1), normalizeSpecName(variant, spec2))

\* the comparison of "Thk (mm)" with "Thickness" has returned true
ThkComparedWithThickness ==
    namePc = "done" /\ spec1 = "Thk (mm)" /\ spec2 = "Thickness" /\ similar

\* C19: a name whose normalized form is the empty string matches nothing:
\* isSemanticallySimilar(a, b) is false for every b.
EmptyNormalizedNameMatchesNothing ==
    (namePc = "done" /\ normalizeSpecName(variant, spec1) = "") => ~similar

\* the words the name normalizer is said to drop
fillerWordsStated == {"sheet", "plate", "pipe", "rod", "bar", "wire",
                      "in", "for", "of", "the", "and", "or", "to"}

\* C20: filler words never affect the normalized name: appending a filler
\* word to a name leaves normalizeSpecName unchanged, and no filler word is a
\* token of a normalized name.
FillerWordsNeverAffectName ==
    namePc = "done" =>
        /\ (\E f \in fillerWordsStated : spec2 = spec1 \o " " \o f)
              => normalizeSpecName(variant, spec2) = normalizeSpecName(variant, spec1)
        /\ \A k \in 1..Len(SplitWords(normalizeSpecName(variant, spec1), 1, "")) :
              SplitWords(normalizeSpecName(variant, spec1), 1, "")[k] \notin fillerWordsStated

(***************************************************************************)
(* The option matcher of api.ts applied to two option strings              *)
(***************************************************************************)

OptPool == {"1.2mm", "12mm", "2mm", "2 mm", "2 cm", "2", "2 inch", "0mm",
            "0.1mm to 6.0mm", "6mm", "7 mm", "SS304", "304", "SS316",
            "MS", "Mild Steel", "Mirror Finish", "Polished",
            "5mm to 12mm", "1 to 5", "Hot Rolled", "HotRolled"}

InitOpt ==
    /\ opt1 \in OptPool
    /\ opt2 \in OptPool
    /\ optSimilar = FALSE
    /\ optPc = "ready"
    /\ IdleName /\ IdleCo /\ IdleBo /\ IdleRc /\ IdleFetch /\ IdleAux

MatchOptions ==
    /\ optPc = "ready"
    /\ optSimilar' = isSemanticallySimilarOption(opt1, opt2)
    /\ optPc' = "done"
    /\ UNCHANGED <<opt1, opt2, varsName, varsCo, varsBo, varsRc, varsFetch, varsAux>>

\* the option matcher of Stage3Results.tsx applied to the same two options
MatchOptionsStage3 ==
    /\ optPc = "ready"
    /\ optSimilar' = areOptionsSimilar(opt1, opt2)
    /\ optPc' = "areOptionsSimilar"
    /\ UNCHANGED <<opt1, opt2, varsName, varsCo, varsBo, varsRc, varsFetch, varsAux>>

NextOpt == MatchOptions \/ MatchOptionsStage3

SpecOpt == InitOpt /\ [][NextOpt]_vars

\* the numeric tokens of an option as the matcher sees them
NumbersOf(o) == extractAllNumbers(Trim(ToLower(o)), 1)

\* C10: two options that each contain exactly one numeric token match only
\* if the two numbers are exactly equal; different single numbers never match.
DifferentSingleNumbersNeverMatch ==
    ( /\ optPc = "done"
      /\ Len(NumbersOf(opt1)) = 1
      /\ Len(NumbersOf(opt2)) = 1
      /\ NumbersOf(opt1)[1] # NumbersOf(opt2)[1] ) => ~optSimilar

\* C11: two single-number options with the same number match (api.ts) only
\* when their units are of the same family (mm, cm, inch, ft) or both carry
\* no unit.
SameNumberNeedsSameUnitFamily ==
    ( /\ optPc = "done" /\ optSimilar
      /\ Len(NumbersOf(opt1)) = 1
      /\ Len(NumbersOf(opt2)) = 1
      /\ NumbersOf(opt1)[1] = NumbersOf(opt2)[1] )
    => \/ sameUnitFamily(Trim(ToLower(opt1)), Trim(ToLower(opt2)))
       \/ bothUnitless(Trim(ToLower(opt1)), Trim(ToLower(opt2)))

\* an option that is a numeric range: a connector and at least two numbers
IsRangeOption(o) == hasRangeConnector(Trim(ToLower(o))) /\ Len(NumbersOf(o)) >= 2

\* the unit an option states, "" if it states none
StatedUnit(o) == FirstAlt(Trim(ToLower(o)), singleUnits)

\* the value of the single option s lies within the bounds of the range
\* option r, and the stated units are equal or one side states none
ValueInsideRange(r, s) ==
    /\ NumbersOf(s)[1] >= Min2(NumbersOf(r)[1], NumbersOf(r)[2])
    /\ NumbersOf(s)[1] <= Max2(NumbersOf(r)[1], NumbersOf(r)[2])
    /\ (StatedUnit(r) = StatedUnit(s) \/ StatedUnit(r) = "" \/ StatedUnit(s) = "")

\* C12: a numeric range and a single numeric value match (api.ts) if and only
\* if the value lies within [min, max] of the range, bounds included, and the
\* units are equal or at least one side states no unit.
RangeMatchesIffValueInside ==
    /\ ( optPc = "done" /\ IsRangeOption(opt1) /\ Len(NumbersOf(opt2)) = 1 )
           => (optSimilar <=> ValueInsideRange(opt1, opt2))
    /\ ( optPc = "done" /\ IsRangeOption(opt2) /\ Len(NumbersOf(opt1)) = 1 )
           => (optSimilar <=> ValueInsideRange(opt2, opt1))

\* C13: both option matchers return true for two options that are equal
\* after trimming and lower-casing, or equal after additionally removing all
\* internal whitespace.
WhitespaceInsensitiveEqualMatch ==
    ( /\ optPc \in {"done", "areOptionsSimilar"}
      /\ RemoveSpaces(Trim(ToLower(opt1))) = RemoveSpaces(Trim(ToLower(opt2))) )
    => optSimilar

(***************************************************************************)
(* generateStage1WithGemini / extractISQWithGemini with the API key set:   *)
(* one behaviour is one call, the HTTP responses being chosen by the       *)
(* environment                                                             *)
(***************************************************************************)

Callers == {"generateStage1WithGemini", "extractISQWithGemini"}

\* statuses of non-ok responses that are not retried
OtherStatuses == {400, 403, 500}

\* response.text() of a non-ok response
ErrorBodies == {"invalid argument", "quota exceeded", "upstream said 429"}

\* messages of the error response.json() throws on a body that is not JSON
JsonErrors == {"Unexpected token < in JSON at position 0",
               "Unexpected token 'q', \"quota exce\"... is not valid JSON"}

InitFetch ==
    /\ caller \in Callers
    /\ attempt = 0
    /\ requests = <<>>
    /\ sleeps = <<>>
    /\ lastStatus = 0
    /\ errorMsg = ""
    /\ fetchPc = "fetch"
    /\ outcome = "none"
    /\ IdleName /\ IdleOpt /\ IdleCo /\ IdleBo /\ IdleRc /\ IdleAux

\* await fetch(url, options) resolves with response.ok
FetchOk ==
    /\ fetchPc = "fetch"
    /\ requests' = Append(requests, [status |-> 200, body |-> ""])
    /\ fetchPc' = "json"
    /\ UNCHANGED <<caller, attempt, sleeps, lastStatus, errorMsg, outcome>>
    /\ UNCHANGED <<varsName, varsOpt, varsCo, varsBo, varsRc, varsAux>>

\* await fetch rejects (network failure): the error reaches the caller's catch
FetchFails ==
    /\ fetchPc = "fetch"
    /\ requests' = Append(requests, [status |-> 0, body |-> ""])
    /\ errorMsg' = "Failed to fetch"
    /\ outcome' = catchOutcome("Failed to fetch")
    /\ fetchPc' = "done"
    /\ UNCHANGED <<caller, attempt, sleeps, lastStatus>>
    /\ UNCHANGED <<varsName, varsOpt, varsCo, varsBo, varsRc, varsAux>>

\* a 429 / 502 / 503 response: retry after a sleep, or throw on the last attempt
FetchOverloaded ==
    /\ fetchPc = "fetch"
    /\ \E status \in {429, 502, 503} :
        /\ isOverloaded(status)
        /\ requests' = Append(requests, [status |-> status, body |-> ""])
        /\ lastStatus' = status
        /\ IF lastAttempt(attempt)
           THEN /\ errorMsg' = overloadedMessage(status)
                /\ outcome' = catchOutcome(overloadedMessage(status))
                /\ fetchPc' = "done"
           ELSE /\ fetchPc' = "sleep"
                /\ UNCHANGED <<errorMsg, outcome>>
    /\ UNCHANGED <<caller, attempt, sleeps>>
    /\ UNCHANGED <<varsName, varsOpt, varsCo, varsBo, varsRc, varsAux>>

\* await sleep(baseDelay * 2^attempt); continue
FetchSleep ==
    /\ fetchPc = "sleep"
    /\ attempt' = attempt + 1
    /\ fetchPc' = "fetch"
    /\ sleeps' = Append(sleeps, waitTime(attempt))
    /\ UNCHANGED <<caller, requests, lastStatus, errorMsg, outcome>>
    /\ UNCHANGED <<varsName, varsOpt, varsCo, varsBo, varsRc, varsAux>>

\* any other non-ok status: throw at once with the response text
FetchOtherError ==
    /\ fetchPc = "fetch"
    /\ \E status \in OtherStatuses, body \in ErrorBodies :
        /\ ~isOverloaded(status)
        /\ requests' = Append(requests, [status |-> status, body |-> body])
        /\ lastStatus' = status
        /\ errorMsg' = apiErrorMessage(status, body)
        /\ outcome' = catchOutcome(apiErrorMessage(status, body))
    /\ fetchPc' = "done"
    /\ UNCHANGED <<caller, attempt, sleeps>>
    /\ UNCHANGED <<varsName, varsOpt, varsCo, varsBo, varsRc, varsAux>>

\* response.json() resolves: the parsed record, or the fallback record when
\* extractJSONFromGemini (and, for stage 2, the text salvage) finds nothing
ReadJson ==
    /\ fetchPc = "json"
    /\ outcome' \in {"parsed", "fallback"}
    /\ fetchPc' = "done"
    /\ UNCHANGED <<caller, attempt, requests, sleeps, lastStatus, errorMsg>>
    /\ UNCHANGED <<varsName, varsOpt, varsCo, varsBo, varsRc, varsAux>>

\* response.json() rejects: the SyntaxError reaches the caller's catch
ReadJsonFails ==
    /\ fetchPc = "json"
    /\ \E msg \in JsonErrors :
        /\ errorMsg' = msg
        /\ outcome' = catchOutcome(msg)
    /\ fetchPc' = "done"
    /\ UNCHANGED <<caller, attempt, requests, sleeps, lastStatus>>
    /\ UNCHANGED <<varsName, varsOpt, varsCo, varsBo, varsRc, varsAux>>

NextFetch ==
    \/ FetchOk
    \/ FetchFails
    \/ FetchOverloaded
    \/ FetchSleep
    \/ FetchOtherError
    \/ ReadJson
    \/ ReadJsonFails

SpecFetch == InitFetch /\ [][NextFetch]_vars

LastRequest == requests[Len(requests)]

QuotaFailure ==
    \/ Len(requests) = retries + 1 /\ LastRequest.status = 429
    \/ /\ LastRequest.status \in OtherStatuses
       /\ LastRequest.body \in {"quota exceeded", "upstream said 429"}
    \/ /\ LastRequest.status = 200
       /\ errorMsg = "Unexpected token 'q', \"quota exce\"... is not valid JSON"

SpecFetchLive == InitFetch /\ [][NextFetch]_vars /\ WF_vars(NextFetch)

\* the requests and waits of fetchWithRetry so far: at most retries + 1
\* requests, a further request only after a 429 / 502 / 503 response and a
\* wait of baseDelay * 2^attempt, none after an ok or any other response
fetchRetryBounded ==
    /\ Len(requests) <= retries + 1
    /\ \A k \in 1..(Len(requests) - 1) : requests[k].status \in {429, 502, 503}
    /\ Len(sleeps) = IF fetchPc = "fetch" THEN Len(requests) ELSE Len(requests) - 1
    /\ \A k \in 1..Len(sleeps) : sleeps[k] = baseDelay * (2 ^ (k - 1))
    /\ attempt = Len(sleeps)

\* C24: fetchWithRetry is a bounded retry loop: it issues at most
\* retries + 1 requests and always terminates; it stops at the first ok
\* response; it issues another request only after a 429, 502 or 503
\* response and a wait of baseDelay * 2^attempt; any other non-ok status
\* ends the call at once.
FetchRetriesBoundedAndTerminates ==
    []fetchRetryBounded /\ <>(fetchPc = "done")

\* the third request got an ok response after two overloaded ones and waits
\* of 5000 and 10000 ms
FetchOkOnLastAttempt ==
    /\ Len(requests) = retries + 1
    /\ LastRequest.status = 200
    /\ sleeps = <<baseDelay, 2 * baseDelay>>

(***************************************************************************)
(* Option set reconciler machine: one call of                              *)
(* findCommonOptionsWithRangeMatching, one step per pass                   *)
(***************************************************************************)

MaxOptions1 == 2
MaxOptions2 == 2

SourceOptionPool == {"304", "SS304", "2mm", "1-5 mm"}
TargetOptionPool == {"304", "2MM", "0.1 to 6 mm"}
CoSpecNames == {"Thickness", "Material"}

SeqsUpTo(S, n) == UNION {[1..k -> S] : k \in 0..n}

coState == [common |-> common, used |-> usedIndices, added |-> addedValues, backing |-> backing]

SetCoState(st) ==
    /\ common' = st.common
    /\ usedIndices' = st.used
    /\ addedValues' = st.added
    /\ backing' = st.backing

InitCo ==
    /\ options1 \in SeqsUpTo(SourceOptionPool, MaxOptions1)
    /\ options2 \in SeqsUpTo(TargetOptionPool, MaxOptions2)
    /\ normName \in {normalizeSpecName("stage3", n) : n \in CoSpecNames}
    /\ common = <<>> /\ usedIndices = {} /\ addedValues = {} /\ backing = <<>>
    /\ coPc = "exact"
    /\ IdleName /\ IdleOpt /\ IdleBo /\ IdleRc /\ IdleFetch /\ IdleAux

CoExactPass ==
    /\ coPc = "exact"
    /\ SetCoState(exactPass(coState, options1, options2, 1))
    /\ coPc' = IF isRangeSpec(normName) THEN "rangeForward" ELSE "semantic"
    /\ UNCHANGED <<options1, options2, normName, varsName, varsOpt, varsBo, varsRc, varsFetch, varsAux>>

CoRangeForwardPass ==
    /\ coPc = "rangeForward"
    /\ SetCoState(rangeForwardPass(coState, options1, options2, 1))
    /\ coPc' = "rangeReverse"
    /\ UNCHANGED <<options1, options2, normName, varsName, varsOpt, varsBo, varsRc, varsFetch, varsAux>>

CoRangeReversePass ==
    /\ coPc = "rangeReverse"
    /\ SetCoState(rangeReversePass(coState, options1, options2, 1))
    /\ coPc' = "semantic"
    /\ UNCHANGED <<options1, options2, normName, varsName, varsOpt, varsBo, varsRc, varsFetch, varsAux>>

CoSemanticPass ==
    /\ coPc = "semantic"
    /\ SetCoState(semanticPass(coState, options1, options2, 1))
    /\ coPc' = "done"
    /\ UNCHANGED <<options1, options2, normName, varsName, varsOpt, varsBo, varsRc, varsFetch, varsAux>>

NextCo == CoExactPass \/ CoRangeForwardPass \/ CoRangeReversePass \/ CoSemanticPass

SpecCo == InitCo /\ [][NextCo]_vars

Injective(q) == \A k, l \in 1..Len(q) : k # l => q[k] # q[l]

\* C2: every option emitted by findCommonOptionsWithRangeMatching consumed one
\* target index that no earlier emitted option had consumed, so the emitted
\* list is never longer than the target list.
CommonConsumesFreshTargets ==
    /\ Len(backing) = Len(common)
    /\ \A k \in 1..Len(backing) : backing[k] \in 1..Len(options2)
    /\ Injective(backing)
    /\ usedIndices = {backing[k] : k \in 1..Len(backing)}
    /\ Len(common) <= Len(options2)

\* a finished call that consumed the whole target list, one index through a
\* match that is not an exact one
CommonUsesEveryTarget ==
    /\ coPc = "done"
    /\ Len(options2) = MaxOptions2
    /\ Len(common) = Len(options2)
    /\ \E k \in 1..Len(common) : Clean(common[k]) # Clean(options2[backing[k]])

\* C14: the list built by findCommonOptionsWithRangeMatching never holds two
\* values that are equal after trimming and lower-casing, whatever the source
\* and target lists (lists with duplicates included).
CommonValuesPairwiseDistinct ==
    \A k, l \in 1..Len(common) : k # l => Clean(common[k]) # Clean(common[l])

\* a finished call on a range spec in which a free target value lies in a
\* source range but was not pushed because its value had been emitted before
CommonSkipsEmittedTargetValue ==
    /\ coPc = "done"
    /\ isRangeSpec(normName)
    /\ \E j \in 1..Len(options2) :
          /\ j \notin usedIndices
          /\ extractValue(options2[j]) # NoNumber
          /\ coveredBySource(options2[j], options1)
          /\ Clean(options2[j]) \in addedValues

\* the first position of an option in the source list, 0 if it is not there
sourceIndex(o) == FirstOf({i \in 1..Len(options1) : options1[i] = o})

\* C15 (as stated): the source options of the returned list stand in the
\* same relative order as in the source list.
CommonKeepsSourceOrder ==
    coPc = "done" =>
        \A k, l \in 1..Len(common) :
            (k < l /\ sourceIndex(common[k]) # 0 /\ sourceIndex(common[l]) # 0)
                => sourceIndex(common[k]) < sourceIndex(common[l])

\* C15 (amended): every pass appends to the list built so far; the options a
\* pass over the source list appends stand in source order, and those the
\* reverse pass appends stand in target order.
EachPassKeepsListOrder ==
    [][ /\ Len(common') >= Len(common)
        /\ SubSeq(common', 1, Len(common)) = common
        /\ \A k, l \in (Len(common) + 1)..Len(common') :
              k < l =>
                IF coPc = "rangeReverse"
                THEN backing'[k] < backing'[l]
                ELSE /\ sourceIndex(common'[k]) # 0
                     /\ sourceIndex(common'[k]) < sourceIndex(common'[l]) ]_vars

\* a finished call whose second emitted option stands before the first one in
\* the source list: it was matched by a later pass
LaterPassMatchEmittedLast ==
    /\ coPc = "done"
    /\ Len(common) = 2
    /\ sourceIndex(common[1]) > sourceIndex(common[2])
    /\ sourceIndex(common[2]) # 0

(***************************************************************************)
(* Buyer option list machine: one call of deduplicateOptions,              *)
(* getBuyerISQOptions or getOptimizedBuyerISQOptions                       *)
(***************************************************************************)

MaxStage1Options == 9
MaxStage2Options == 2

Stage1Catalogue == <<"1mm", "2 mm", " 1MM", "SS304", "3mm", "4mm", "5mm", "6mm",
                     "8mm", "10mm", "0.5mm", "2mm">>
Stage2Catalogue == <<"2MM", "304", "0.6 cm", "5mm">>
BoSpecNames == {"Thickness", "Brand"}

\* the contiguous pieces of a catalogue that hold at most n options
Windows(cat, n) ==
    {SubSeq(cat, w[1], w[2]) :
        w \in {w \in (1..Len(cat)) \X (0..Len(cat)) : w[2] >= w[1] - 1 /\ w[2] - w[1] < n}}

InitBo ==
    /\ stage1Options \in Windows(Stage1Catalogue, MaxStage1Options)
    /\ stage2Options \in Windows(Stage2Catalogue, MaxStage2Options)
    /\ boNormName \in {normalizeSpecName("api", n) : n \in BoSpecNames}
    /\ boResult = <<>>
    /\ boPc = "ready"
    /\ IdleName /\ IdleOpt /\ IdleCo /\ IdleRc /\ IdleFetch /\ IdleAux

CallDeduplicateOptions ==
    /\ boPc = "ready"
    /\ boResult' = deduplicateOptions(stage1Options)
    /\ boPc' = "deduplicateOptions"
    /\ UNCHANGED <<stage1Options, stage2Options, boNormName, varsName, varsOpt, varsCo, varsRc, varsFetch, varsAux>>

CallGetBuyerISQOptions ==
    /\ boPc = "ready"
    /\ boResult' = getBuyerISQOptions(boNormName,
                                      <<[normName |-> boNormName, options |-> stage1Options]>>,
                                      <<[normName |-> boNormName, options |-> stage2Options]>>)
    /\ boPc' = "getBuyerISQOptions"
    /\ UNCHANGED <<stage1Options, stage2Options, boNormName, varsName, varsOpt, varsCo, varsRc, varsFetch, varsAux>>

CallGetOptimizedBuyerISQOptions ==
    /\ boPc = "ready"
    /\ boResult' = getOptimizedBuyerISQOptions(stage1Options, stage2Options, boNormName)
    /\ boPc' = "getOptimizedBuyerISQOptions"
    /\ UNCHANGED <<stage1Options, stage2Options, boNormName, varsName, varsOpt, varsCo, varsRc, varsFetch, varsAux>>

NextBo == CallDeduplicateOptions \/ CallGetBuyerISQOptions \/ CallGetOptimizedBuyerISQOptions

SpecBo == InitBo /\ [][NextBo]_vars

\* C3: deduplicateOptions, getBuyerISQOptions and getOptimizedBuyerISQOptions
\* never return more than 8 options.
BuyerOptionsAtMostEight == boPc # "ready" => Len(boResult) <= 8

\* deduplicateOptions was given more than 8 distinct options and returned 8
DeduplicateCutsToEight ==
    /\ boPc = "deduplicateOptions"
    /\ Len(dedupFrom(stage1Options, 1, <<>>, {})) > 8
    /\ Len(boResult) = 8

\* the members of a list of options
Members(opts) == {opts[k] : k \in 1..Len(opts)}

optionClass(o) ==
    IF \E i \in 1..Len(stage1Options) :
           Trim(stage1Options[i]) = o /\ firstExact(stage1Options[i], stage2Options) # 0
    THEN 1
    ELSE IF o \in Members(TrimAll(stage1Options)) THEN 2 ELSE 3

\* the amended statement on a result whose options have the classes cls and
\* the lower-case forms low, for the fallback list fb
stageOneThenFallbacks(fb, cls, low) ==
    /\ \A k \in 1..Len(boResult) : cls[k] = 3 => boResult[k] \in Members(fb)
    /\ \A k, l \in 1..Len(boResult) : k < l => cls[k] <= cls[l]
    /\ (\E k \in 1..Len(boResult) : cls[k] = 3) =>
          \A i \in 1..Len(stage1Options) :
              \E l \in 1..Len(boResult) : cls[l] # 3 /\ low[l] = Clean(stage1Options[i])
    /\ \A j \in 1..Len(stage2Options) :
          (firstExact(stage2Options[j], stage1Options) = 0 /\ firstExact(stage2Options[j], fb) = 0)
          => \A k \in 1..Len(boResult) : low[k] # Clean(stage2Options[j])

MaxStage1Specs == 3
MaxStage2Specs == 3

Stage1Spec(name, options, tier) ==
    [spec_name |-> name, options |-> options, input_type |-> "radio_button", tier |-> tier,
     normName |-> normalizeSpecName("stage3", name)]

\* Stage 1 specs in the order the seller specs list them
Stage1SpecCatalogue == <<
    Stage1Spec("Material", <<"SS304", "SS316">>, "Primary"),
    Stage1Spec("Thk", <<"2mm", "3mm">>, "Primary"),
    Stage1Spec("Material Grade", <<"304">>, "Secondary"),
    Stage1Spec("Material", <<"Aluminium">>, "Secondary"),
    Stage1Spec("Width", <<"1000mm">>, "Primary") >>

Stage2ISQPool == {
    [name |-> "Composition", options |-> <<"Aluminium">>],
    [name |-> "Material", options |-> <<"SS 304", "MS">>],
    [name |-> "Thickness", options |-> <<"1-5 mm">>],
    [name |-> "Width", options |-> <<"1000 mm", "1250mm">>] }

\* the sub-lists of a catalogue of at most n entries, order kept
RECURSIVE SubLists(_, _)
SubLists(cat, n) ==
    IF cat = <<>> \/ n = 0 THEN {<<>>}
    ELSE SubLists(Tail(cat), n) \cup {<<cat[1]>> \o rest : rest \in SubLists(Tail(cat), n - 1)}

InitRc ==
    /\ stage1AllSpecs \in SubLists(Stage1SpecCatalogue, MaxStage1Specs)
    /\ stage2ISQs \in {q \in SeqsUpTo(Stage2ISQPool, MaxStage2Specs) : Injective(q)}
    /\ rcI = 1
    /\ matchedStage1 = {} /\ matchedStage2 = {} /\ pairs = <<>>
    /\ commonSpecs = <<>> /\ uniqueCommonSpecs = <<>> /\ buyerISQs = <<>>
    /\ rcPc = "matching"
    /\ IdleName /\ IdleOpt /\ IdleCo /\ IdleBo /\ IdleFetch /\ IdleAux

\* the match found for the Stage 1 spec at rcI
rcBest == bestMatchIndex(stage1AllSpecs[rcI].spec_name, stage2ISQs, matchedStage2)

\* one iteration of stage1AllSpecs.forEach with bestMatchIndex !== -1
PairSpec ==
    /\ rcPc = "matching" /\ rcI <= Len(stage1AllSpecs)
    /\ \E best \in {rcBest} :
          /\ best # 0
          /\ matchedStage1' = matchedStage1 \cup {rcI}
          /\ matchedStage2' = matchedStage2 \cup {best}
          /\ pairs' = Append(pairs, <<rcI, best>>)
          /\ commonSpecs' = pushCommonSpec(commonSpecs,
                                commonSpecOf(stage1AllSpecs[rcI], stage2ISQs[best].options))
    /\ rcI' = rcI + 1
    /\ UNCHANGED <<stage1AllSpecs, stage2ISQs, uniqueCommonSpecs, buyerISQs, rcPc,
                   varsName, varsOpt, varsCo, varsBo, varsFetch, varsAux>>

\* one iteration of stage1AllSpecs.forEach with bestMatchIndex === -1
SkipSpec ==
    /\ rcPc = "matching" /\ rcI <= Len(stage1AllSpecs)
    /\ rcBest = 0
    /\ rcI' = rcI + 1
    /\ UNCHANGED <<stage1AllSpecs, stage2ISQs, matchedStage1, matchedStage2, pairs, commonSpecs,
                   uniqueCommonSpecs, buyerISQs, rcPc, varsName, varsOpt, varsCo, varsBo, varsFetch, varsAux>>

\* after the loop: the duplicate filter, selectBuyerISQs and the return
ReturnSpecs ==
    /\ rcPc = "matching" /\ rcI > Len(stage1AllSpecs)
    /\ uniqueCommonSpecs' = uniqueByName(commonSpecs, 1)
    /\ buyerISQs' = selectBuyerISQs(uniqueByName(commonSpecs, 1))
    /\ rcPc' = "done"
    /\ UNCHANGED <<stage1AllSpecs, stage2ISQs, rcI, matchedStage1, matchedStage2, pairs,
                   commonSpecs, varsName, varsOpt, varsCo, varsBo, varsFetch, varsAux>>

\* selectStage3BuyerISQs of api.ts on the same Stage 1 specs and Stage 2 ISQs
CallSelectStage3BuyerISQs ==
    /\ rcPc = "matching" /\ rcI = 1
    /\ buyerISQs' = selectStage3BuyerISQs(stage1AllSpecs, stage2ISQs)
    /\ rcPc' = "selectStage3BuyerISQs"
    /\ UNCHANGED <<stage1AllSpecs, stage2ISQs, rcI, matchedStage1, matchedStage2, pairs,
                   commonSpecs, uniqueCommonSpecs, varsName, varsOpt, varsCo, varsBo,
                   varsFetch, varsAux>>

NextRc == PairSpec \/ SkipSpec \/ ReturnSpecs \/ CallSelectStage3BuyerISQs

SpecRc == InitRc /\ [][NextRc]_vars

\* the Stage 2 indices consumed by the pairs made before the k-th pair
consumedBefore(k) == {pairs[m][2] : m \in 1..(k - 1)}

\* the name test of the reconciler on Stage 1 index i and Stage 2 index j
namesMatch(i, j) == isSemanticallySimilar("stage3", stage1AllSpecs[i].spec_name, stage2ISQs[j].name)

\* C1: no Stage 2 index is paired with two Stage 1 specs in one run of
\* extractCommonAndBuyerSpecs: the pairs made so far use pairwise different
\* Stage 2 indices, and these are exactly the indices marked as matched.
StageTwoIndexPairedOnce ==
    /\ \A k, l \in 1..Len(pairs) : k # l => pairs[k][2] # pairs[l][2]
    /\ \A k \in 1..Len(pairs) : pairs[k][2] \in 1..Len(stage2ISQs)
    /\ matchedStage2 = {pairs[k][2] : k \in 1..Len(pairs)}

\* a Stage 1 spec was paired although an earlier pair had already consumed a
\* Stage 2 spec whose name it matches as well
StageTwoSpecContested ==
    \E k, l \in 1..Len(pairs) : k < l /\ namesMatch(pairs[l][1], pairs[k][2])

\* C4: selectBuyerISQs returns exactly min(2, |commonSpecs|) buyer ISQs.
BuyerISQsAreMinTwo ==
    rcPc = "done" => Len(buyerISQs) = Min2(2, Len(uniqueCommonSpecs))

\* three common specs went in and two buyer ISQs came out
BuyerISQsCutToTwo ==
    rcPc = "done" /\ Len(uniqueCommonSpecs) = 3 /\ Len(buyerISQs) = 2

\* the example of C5
MaterialOnly == <<Stage1Spec("Material", <<"SS304", "SS316">>, "Primary")>>
CompositionOnly == <<[name |-> "Composition", options |-> <<"Aluminium">>]>>
MaterialWithoutOptions ==
    <<[spec_name |-> "Material", options |-> <<>>, input_type |-> "radio_button",
       category |-> "Primary"]>>

\* C5: every pair made by extractCommonAndBuyerSpecs is reported as a common
\* spec, also when the two option lists have nothing in common (options = []),
\* and its name is in the returned list; Stage 1 {Material, [SS304, SS316],
\* Primary} against Stage 2 {Composition, [Aluminium]} returns exactly
\* {Material, [], Primary}.
EmptyMatchStillReported ==
    rcPc = "done" =>
        /\ Len(commonSpecs) = Len(pairs)
        /\ \A k \in 1..Len(pairs) :
              /\ commonSpecs[k].spec_name = stage1AllSpecs[pairs[k][1]].spec_name
              /\ firstWithName(uniqueCommonSpecs, commonSpecs[k].spec_name) # 0
        /\ (stage1AllSpecs = MaterialOnly /\ stage2ISQs = CompositionOnly
               => uniqueCommonSpecs = MaterialWithoutOptions)

\* the run on the example has returned the Material spec with no options
MaterialReportedWithoutOptions ==
    /\ rcPc = "done"
    /\ stage1AllSpecs = MaterialOnly /\ stage2ISQs = CompositionOnly
    /\ pairs = <<<<1, 1>>>>
    /\ uniqueCommonSpecs = MaterialWithoutOptions

\* the lowest matched Stage 1 index that carries the name, 0 if none
firstMatchedWithName(name) ==
    FirstOf({i \in matchedStage1 : stage1AllSpecs[i].spec_name = name})

\* C6: the returned commonSpecs list has no two entries with the same
\* spec_name, every matched name is in it, and the entry kept for a name is
\* the one of the first matched Stage 1 spec with that name.
CommonSpecNamesUnique ==
    rcPc = "done" =>
        /\ \A u, v \in 1..Len(uniqueCommonSpecs) :
              u # v => uniqueCommonSpecs[u].spec_name # uniqueCommonSpecs[v].spec_name
        /\ \A i \in matchedStage1 :
              firstWithName(uniqueCommonSpecs, stage1AllSpecs[i].spec_name) # 0
        /\ \A u \in 1..Len(uniqueCommonSpecs) :
              /\ firstMatchedWithName(uniqueCommonSpecs[u].spec_name) # 0
              /\ uniqueCommonSpecs[u].category =
                     stage1AllSpecs[firstMatchedWithName(uniqueCommonSpecs[u].spec_name)].tier
              /\ uniqueCommonSpecs[u] =
                     commonSpecs[firstWithName(commonSpecs, uniqueCommonSpecs[u].spec_name)]

\* two matched Stage 1 specs had the same name and one entry was removed
DuplicateNameRemoved ==
    /\ rcPc = "done"
    /\ Len(uniqueCommonSpecs) < Len(commonSpecs)
    /\ \E i, l \in matchedStage1 :
          i < l /\ stage1AllSpecs[i].spec_name = stage1AllSpecs[l].spec_name
                /\ stage1AllSpecs[i].tier # stage1AllSpecs[l].tier

\* C7: the pairs are made in Stage 1 order, at most one per Stage 1 spec, each
\* with the lowest Stage 2 index that matches by name and was not consumed by
\* an earlier pair; a Stage 1 spec is left unpaired only when no such index
\* exists; the common spec takes its name and tier from the Stage 1 spec.
PairsTakeLowestFreeMatch ==
    rcPc = "done" =>
        /\ Len(commonSpecs) = Len(pairs)
        /\ \A k, l \in 1..Len(pairs) : k < l => pairs[k][1] < pairs[l][1]
        /\ \A k \in 1..Len(pairs) :
              /\ pairs[k][2] \notin consumedBefore(k)
              /\ namesMatch(pairs[k][1], pairs[k][2])
              /\ \A j \in 1..(pairs[k][2] - 1) :
                    j \in consumedBefore(k) \/ ~namesMatch(pairs[k][1], j)
              /\ commonSpecs[k].spec_name = stage1AllSpecs[pairs[k][1]].spec_name
              /\ commonSpecs[k].category = stage1AllSpecs[pairs[k][1]].tier
        /\ \A i \in (1..Len(stage1AllSpecs)) \ matchedStage1 :
              \A j \in 1..Len(stage2ISQs) :
                  namesMatch(i, j) => \E m \in 1..Len(pairs) : pairs[m][1] < i /\ pairs[m][2] = j

\* a pair was made with the lower of two free Stage 2 specs that both match
LowerOfTwoMatchesTaken ==
    /\ rcPc = "done"
    /\ \E k \in 1..Len(pairs) : \E j \in (pairs[k][2] + 1)..Len(stage2ISQs) :
          j \notin consumedBefore(k) /\ namesMatch(pairs[k][1], j)

\* the Clean forms of a list of options
cleanForms(opts) == {Clean(opts[k]) : k \in 1..Len(opts)}

\* the position in the returned commonSpecs of the b-th buyer ISQ
selectedIndex(b) == firstWithName(uniqueCommonSpecs, buyerISQs[b].spec_name)

\* C17: the option list of a buyer ISQ is blended from the original Stage 1
\* and Stage 2 lists: when the common subset has fewer than 8 options and the
\* Stage 1 spec has options outside it, the buyer ISQ lists one of those.
BuyerISQListsUnmatchedStageOneOption ==
    rcPc = "done" =>
        \A b \in 1..Len(buyerISQs) :
            ( /\ Len(uniqueCommonSpecs[selectedIndex(b)].options) < 8
              /\ cleanForms(stage1AllSpecs[firstMatchedWithName(buyerISQs[b].spec_name)].options)
                     \ cleanForms(uniqueCommonSpecs[selectedIndex(b)].options) # {} )
            => (cleanForms(buyerISQs[b].options)
                   \cap cleanForms(stage1AllSpecs[firstMatchedWithName(buyerISQs[b].spec_name)].options))
                   \ cleanForms(uniqueCommonSpecs[selectedIndex(b)].options) # {}

\* the positions in the returned commonSpecs that selectBuyerISQs selected
selectedIndices == {selectedIndex(b) : b \in 1..Len(buyerISQs)}

\* the score of the common spec at a position of the returned commonSpecs
scoreAt(u) == specScore(uniqueCommonSpecs[u])

\* C18: selectBuyerISQs returns the two highest-scoring common specs in
\* non-increasing score order: no unselected spec scores strictly higher than
\* a selected one, and specs of equal score keep their order in commonSpecs.
BuyerISQsAreTopScored ==
    rcPc = "done" =>
        /\ \A b \in 1..Len(buyerISQs) :
              /\ selectedIndex(b) # 0
              /\ buyerISQs[b].category = uniqueCommonSpecs[selectedIndex(b)].category
        /\ \A b, c \in 1..Len(buyerISQs) :
              b < c => \/ scoreAt(selectedIndex(b)) > scoreAt(selectedIndex(c))
                       \/ /\ scoreAt(selectedIndex(b)) = scoreAt(selectedIndex(c))
                          /\ selectedIndex(b) < selectedIndex(c)
        /\ \A b \in 1..Len(buyerISQs) :
              \A u \in (1..Len(uniqueCommonSpecs)) \ selectedIndices :
                  \/ scoreAt(selectedIndex(b)) > scoreAt(u)
                  \/ scoreAt(selectedIndex(b)) = scoreAt(u) /\ selectedIndex(b) < u

\* two buyer ISQs were selected out of three common specs: the first one
\* stands last in commonSpecs, and the second one has the same score as the
\* spec that was left out
BuyerISQsReorderedAndTied ==
    /\ rcPc = "done"
    /\ Len(buyerISQs) = 2
    /\ selectedIndex(1) > selectedIndex(2)
    /\ \E u \in (1..Len(uniqueCommonSpecs)) \ selectedIndices :
          scoreAt(u) = scoreAt(selectedIndex(2))

\* the score of a spec when the bonus goes by the normalized name
scoreByNormalizedName(spec) ==
    (IF spec.category = "Primary" THEN 10 ELSE 0)
    + (IF spec.category = "Secondary" THEN 5 ELSE 0)
    + Min2(Len(spec.options), 10)
    + (IF Has(importantSpecs, normalizeSpecName("stage3", spec.spec_name)) THEN 5 ELSE 0)

\* C25: in selectBuyerISQs the importance bonus is granted whenever the
\* normalized name of the spec is one of material, thickness, grade, size,
\* width, length; a spec named "Thk" receives it.
BonusGoesByNormalizedName ==
    rcPc = "done" =>
        \A u \in 1..Len(uniqueCommonSpecs) :
            Has(importantSpecs, normalizeSpecName("stage3", uniqueCommonSpecs[u].spec_name))
                => scoreAt(u) = scoreByNormalizedName(uniqueCommonSpecs[u])

\* no Stage 1 name matches a Stage 2 name (true when either list is empty)
noNameMatches ==
    \A i \in 1..Len(stage1AllSpecs) : \A j \in 1..Len(stage2ISQs) : ~namesMatch(i, j)

\* C23: empty inputs give empty lists: with no Stage 1 specs, no Stage 2
\* specs or no matching names, extractCommonAndBuyerSpecs returns
\* commonSpecs = [] and buyerISQs = [], and selectStage3BuyerISQs returns [].
EmptyInputsGiveEmptyLists ==
    /\ (rcPc = "done" /\ noNameMatches)
          => (commonSpecs = <<>> /\ uniqueCommonSpecs = <<>> /\ buyerISQs = <<>>)
    /\ (rcPc = "selectStage3BuyerISQs" /\ noNameMatches) => buyerISQs = <<>>

\* a finished run on non-empty lists in which no names match
NothingInCommon ==
    /\ rcPc = "done"
    /\ stage1AllSpecs # <<>> /\ stage2ISQs # <<>>
    /\ noNameMatches
    /\ uniqueCommonSpecs = <<>>

(***************************************************************************)
(* Option lists with malformed values: cleanOptions (Stage2Results) and    *)
(* findCommonOptionsWithRangeMatching on values that are not all strings.  *)
(* A value is a record of its JavaScript type and of String(value).        *)
(***************************************************************************)

StringValue(text) == [type |-> "string", text |-> text]
NullValue         == [type |-> "null", text |-> "null"]
NumberValue(text) == [type |-> "number", text |-> text]

\* s.replace(/^["'\[]+/, '')
RECURSIVE stripLeading(_)
stripLeading(s) ==
    IF Len(s) > 0 /\ IsIn(Char(s, 1), "\"'[") THEN stripLeading(SubSeq(s, 2, Len(s))) ELSE s

\* s.replace(/["'\]]+$/, '')
RECURSIVE stripTrailing(_)
stripTrailing(s) ==
    IF Len(s) > 0 /\ IsIn(Char(s, Len(s)), "\"']")
    THEN stripTrailing(SubSeq(s, 1, Len(s) - 1))
    ELSE s

\* the callback of options.map in cleanOptions
cleanOption(v) ==
    IF v.type # "string" THEN Trim(v.text)
    ELSE Trim(Trim(stripTrailing(stripLeading(v.text))))

\* the callback of .filter in cleanOptions
keepOption(opt) ==
    /\ opt # ""
    /\ ~Includes(ToLower(opt), "option")
    /\ ~Includes(ToLower(opt), "value")
    /\ ~Includes(ToLower(opt), "spec")
    /\ ToLower(opt) # "undefined"
    /\ ToLower(opt) # "null"
    /\ opt # "[]"
    /\ opt # "{}"
    /\ Len(opt) <= 50

RECURSIVE keptOptions(_, _)
keptOptions(values, i) ==
    IF i > Len(values) THEN <<>>
    ELSE (IF keepOption(cleanOption(values[i])) THEN <<cleanOption(values[i])>> ELSE <<>>)
         \o keptOptions(values, i + 1)

cleanOptions(values) == Take(keptOptions(values, 1), 10)

\* opt1.trim() of the first pass throws a TypeError on a value without trim
trimThrows(values) == \E i \in 1..Len(values) : values[i].type # "string"

TextsOf(values) == [k \in 1..Len(values) |-> values[k].text]

MaxRawOptions == 2

RawValuePool == {StringValue("2mm"), StringValue("\"3mm\""), StringValue(""), StringValue(" "),
                 StringValue("Option 1"), NullValue, NumberValue("5")}
RawTargetLists == {<<>>, <<"2mm">>, <<"", "2mm">>}

InitRaw ==
    /\ rawOptions1 \in SeqsUpTo(RawValuePool, MaxRawOptions)
    /\ rawOptions2 \in RawTargetLists
    /\ rawReturned = <<>>
    /\ rawThrew = FALSE
    /\ rawPc = "ready"
    /\ IdleMain
    /\ IdleCmp

\* findCommonOptionsWithRangeMatching(rawOptions1, rawOptions2, "thickness")
CallFindCommonOptionsRaw ==
    /\ rawPc = "ready"
    /\ rawThrew' = trimThrows(rawOptions1)
    /\ rawReturned' = IF trimThrows(rawOptions1) THEN <<>>
                       ELSE findCommonOptionsWithRangeMatching(TextsOf(rawOptions1), rawOptions2,
                                                               "thickness")
    /\ rawPc' = "findCommonOptionsWithRangeMatching"
    /\ UNCHANGED <<rawOptions1, rawOptions2, varsMain, varsCmp>>

\* cleanOptions(rawOptions1)
CallCleanOptions ==
    /\ rawPc = "ready"
    /\ rawThrew' = FALSE
    /\ rawReturned' = cleanOptions(rawOptions1)
    /\ rawPc' = "cleanOptions"
    /\ UNCHANGED <<rawOptions1, rawOptions2, varsMain, varsCmp>>

NextRaw == CallFindCommonOptionsRaw \/ CallCleanOptions

SpecRaw == InitRaw /\ [][NextRaw]_vars

\* a value that is not a string, or a string that is empty after trimming
malformed(v) == v.type # "string" \/ Trim(v.text) = ""

\* C22: a malformed option value (non-string, null, or empty after cleaning)
\* is dropped silently: it never appears in the common options or in the
\* cleaned options, and it never makes the call throw.
MalformedOptionsDroppedSilently ==
    rawPc # "ready" =>
        /\ ~rawThrew
        /\ \A i \in 1..Len(rawOptions1) :
              malformed(rawOptions1[i]) =>
                \A k \in 1..Len(rawReturned) :
                    /\ rawReturned[k] # rawOptions1[i].text
                    /\ rawReturned[k] # Trim(rawOptions1[i].text)

(***************************************************************************)
(* compareResults and findCommonOptions (api.ts)                           *)
(***************************************************************************)

\* /(?:to|\-|~|up to|upto|from)/i.test(s)
rangeWord(s) ==
    \E w \in {"to", "-", "~", "up to", "upto", "from"} : Includes(ToLower(s), w)

\* the unit chain of getOptionsWithinRangeApi on a lower-cased string
unitOfApi(lower) ==
    IF Includes(lower, "mm") \/ Includes(lower, "millimeter") THEN "mm"
    ELSE IF Includes(lower, "cm") \/ Includes(lower, "centimeter") THEN "cm"
    ELSE IF Includes(lower, "m") \/ Includes(lower, "meter") THEN "m"
    ELSE IF Includes(lower, "inch") \/ Includes(lower, "\"") THEN "inch"
    ELSE IF Includes(lower, "ft") \/ Includes(lower, "feet") THEN "ft"
    ELSE "mm"

\* the options.forEach of getOptionsWithinRangeApi from index k on
RECURSIVE optionsInside(_, _, _, _, _)
optionsInside(options, k, rangeMin, rangeMax, rangeUnit) ==
    IF k > Len(options) THEN <<>>
    ELSE LET optionLower == ToLower(options[k])
             optionNum == FirstNumber(optionLower)
             hit == /\ ~rangeWord(optionLower)
                    /\ optionNum # NoNumber
                    /\ optionNum >= rangeMin /\ optionNum <= rangeMax
                    /\ rangeUnit = unitOfApi(optionLower)
         IN (IF hit THEN <<options[k]>> ELSE <<>>)
              \o optionsInside(options, k + 1, rangeMin, rangeMax, rangeUnit)

getOptionsWithinRangeApi(rangeStr, options) ==
    LET rangeLower == ToLower(rangeStr)
        rangeNums == extractAllNumbers(rangeLower, 1)
    IN IF Len(rangeNums) < 2 THEN <<>>
       ELSE optionsInside(options, 1, Min2(rangeNums[1], rangeNums[2]),
                          Max2(rangeNums[1], rangeNums[2]), unitOfApi(rangeLower))

\* FIRST pass of findCommonOptions: the nested forEach from (i, j) on
RECURSIVE directPass(_, _, _, _, _, _)
directPass(o1, o2, i, j, found, used) ==
    IF i > Len(o1) THEN [common |-> found, used |-> used]
    ELSE IF j > Len(o2) THEN directPass(o1, o2, i + 1, 1, found, used)
    ELSE IF /\ j \notin used
            /\ ~rangeWord(o1[i]) /\ ~rangeWord(o2[j])
            /\ isSemanticallySimilarOption(o1[i], o2[j])
         THEN directPass(o1, o2, i, j + 1, Append(found, o1[i]), used \cup {j})
         ELSE directPass(o1, o2, i, j + 1, found, used)

\* matches.forEach(match => { if (!common.includes(match)) common.push(match) })
RECURSIVE pushNew(_, _, _)
pushNew(found, matches, k) ==
    IF k > Len(matches) THEN found
    ELSE pushNew(IF Has(found, matches[k]) THEN found ELSE Append(found, matches[k]),
                 matches, k + 1)

\* SECOND pass: the target options that are ranges and still unused
RECURSIVE targetRangePass(_, _, _, _, _)
targetRangePass(o1, o2, j, found, used) ==
    IF j > Len(o2) THEN found
    ELSE IF j \notin used /\ rangeWord(o2[j])
         THEN targetRangePass(o1, o2, j + 1,
                  pushNew(found, getOptionsWithinRangeApi(o2[j], o1), 1), used)
         ELSE targetRangePass(o1, o2, j + 1, found, used)

\* THIRD pass: the source options that are ranges
RECURSIVE sourceRangePass(_, _, _, _)
sourceRangePass(o1, o2, i, found) ==
    IF i > Len(o1) THEN found
    ELSE IF rangeWord(o1[i])
         THEN sourceRangePass(o1, o2, i + 1,
                  pushNew(found, getOptionsWithinRangeApi(o1[i], o2), 1))
         ELSE sourceRangePass(o1, o2, i + 1, found)

findCommonOptions(o1, o2) ==
    LET first == directPass(o1, o2, 1, 1, <<>>, {})
    IN sourceRangePass(o1, o2, 1, targetRangePass(o1, o2, 1, first.common, first.used))

\* mine.filter(opt => !theirs.some(other => isSemanticallySimilarOption(opt, other)))
RECURSIVE uniqueOptions(_, _, _)
uniqueOptions(mine, theirs, k) ==
    IF k > Len(mine) THEN <<>>
    ELSE (IF \E m \in 1..Len(theirs) : isSemanticallySimilarOption(mine[k], theirs[m])
          THEN <<>> ELSE <<mine[k]>>) \o uniqueOptions(mine, theirs, k + 1)

\* the entry pushed to commonSpecs for one matching pair
commonEntry(chatgptSpec, geminiSpec) ==
    [spec_name |-> chatgptSpec.spec_name,
     chatgpt_name |-> chatgptSpec.spec_name,
     gemini_name |-> geminiSpec.spec_name,
     common_options |-> findCommonOptions(chatgptSpec.options, geminiSpec.options),
     chatgpt_unique_options |-> uniqueOptions(chatgptSpec.options, geminiSpec.options, 1),
     gemini_unique_options |-> uniqueOptions(geminiSpec.options, chatgptSpec.options, 1)]

\* an inner loop without the matchedGemini test
skippedNothing(matched) == {}

\* if (matchedGemini.has(j)) return: the indices the inner loop skips
skippedGemini(matched) == matched

\* the inner geminiAllSpecs.forEach for one chatgpt spec: the indices j, in
\* order, that are not yet matched and whose name is similar
RECURSIVE similarGemini(_, _, _, _)
similarGemini(chatgptSpec, geminiSpecs, matched, j) ==
    IF j > Len(geminiSpecs) THEN <<>>
    ELSE (IF /\ j \notin skippedGemini(matched)
             /\ isSemanticallySimilar("api", chatgptSpec.spec_name, geminiSpecs[j].spec_name)
          THEN <<j>> ELSE <<>>) \o similarGemini(chatgptSpec, geminiSpecs, matched, j + 1)

MaxChatgptSpecs == 2
MaxGeminiSpecs == 3

SpecWithOptions(name, options) == [spec_name |-> name, options |-> options]

ChatgptSpecCatalogue == <<
    SpecWithOptions("Material", <<"Cotton", "SS304">>),
    SpecWithOptions("Grade", <<"304">>),
    SpecWithOptions("Thickness", <<"2 mm", "2mm", "1-5 mm">>) >>

GeminiSpecCatalogue == <<
    SpecWithOptions("Material", <<"Cotton", "SS 304">>),
    SpecWithOptions("Material Grade", <<"304", "316">>),
    SpecWithOptions("Thickness", <<"2mm", "1-5 mm">>),
    SpecWithOptions("Width", <<"1000 mm">>) >>

InitCmp ==
    /\ chatgptAllSpecs \in SubLists(ChatgptSpecCatalogue, MaxChatgptSpecs)
    /\ geminiAllSpecs \in SubLists(GeminiSpecCatalogue, MaxGeminiSpecs)
    /\ cmpI = 1
    /\ matchedChatgpt = {} /\ matchedGemini = {} /\ cmpPairs = <<>>
    /\ common_specs = <<>> /\ chatgpt_unique_specs = <<>> /\ gemini_unique_specs = <<>>
    /\ cmpPc = "comparing"
    /\ IdleMain /\ IdleRaw

\* the gemini indices paired with the chatgpt spec at cmpI
cmpMatches == similarGemini(chatgptAllSpecs[cmpI], geminiAllSpecs, matchedGemini, 1)

\* one iteration of chatgptAllSpecs.forEach that finds at least one match
MatchChatgptSpec ==
    /\ cmpPc = "comparing" /\ cmpI <= Len(chatgptAllSpecs)
    /\ \E js \in {cmpMatches} :
          /\ js # <<>>
          /\ matchedChatgpt' = matchedChatgpt \cup {cmpI}
          /\ matchedGemini' = matchedGemini \cup {js[k] : k \in 1..Len(js)}
          /\ cmpPairs' = cmpPairs \o [k \in 1..Len(js) |-> <<cmpI, js[k]>>]
          /\ common_specs' = common_specs \o
                [k \in 1..Len(js) |-> commonEntry(chatgptAllSpecs[cmpI], geminiAllSpecs[js[k]])]
    /\ cmpI' = cmpI + 1
    /\ UNCHANGED <<chatgptAllSpecs, geminiAllSpecs, chatgpt_unique_specs, gemini_unique_specs,
                   cmpPc, varsMain, varsRaw>>

\* one iteration of chatgptAllSpecs.forEach with foundMatch still false
KeepChatgptSpecUnique ==
    /\ cmpPc = "comparing" /\ cmpI <= Len(chatgptAllSpecs)
    /\ cmpMatches = <<>>
    /\ chatgpt_unique_specs' = Append(chatgpt_unique_specs, chatgptAllSpecs[cmpI])
    /\ cmpI' = cmpI + 1
    /\ UNCHANGED <<chatgptAllSpecs, geminiAllSpecs, matchedChatgpt, matchedGemini, cmpPairs,
                   common_specs, gemini_unique_specs, cmpPc, varsMain, varsRaw>>

\* the gemini specs whose index is not in matched, from index j on
RECURSIVE unmatchedGemini(_, _, _)
unmatchedGemini(geminiSpecs, matched, j) ==
    IF j > Len(geminiSpecs) THEN <<>>
    ELSE (IF j \in matched THEN <<>> ELSE <<geminiSpecs[j]>>)
           \o unmatchedGemini(geminiSpecs, matched, j + 1)

\* after the loop: geminiUnique is filled and the three lists are returned
ReturnComparison ==
    /\ cmpPc = "comparing" /\ cmpI > Len(chatgptAllSpecs)
    /\ gemini_unique_specs' = unmatchedGemini(geminiAllSpecs, matchedGemini, 1)
    /\ cmpPc' = "done"
    /\ UNCHANGED <<chatgptAllSpecs, geminiAllSpecs, cmpI, matchedChatgpt, matchedGemini,
                   cmpPairs, common_specs, chatgpt_unique_specs, varsMain, varsRaw>>

NextCmp == MatchChatgptSpec \/ KeepChatgptSpecUnique \/ ReturnComparison

SpecCmp == InitCmp /\ [][NextCmp]_vars

\* some option of list a and some option of list b are equal after trimming
\* and lower-casing, and no element of found is that option
sharedOptionMissing(a, b, found) ==
    \E x \in 1..Len(a) : \E y \in 1..Len(b) :
        /\ Clean(a[x]) = Clean(b[y])
        /\ \A k \in 1..Len(found) : Clean(found[k]) # Clean(a[x])

\* C26: whenever the source list and the target list of findCommonOptions
\* both contain the same option (equal after trimming and lower-casing), that
\* option appears in the returned common list.
SharedOptionIsCommon ==
    \A k \in 1..Len(cmpPairs) :
        ~sharedOptionMissing(chatgptAllSpecs[cmpPairs[k][1]].options,
                             geminiAllSpecs[cmpPairs[k][2]].options,
                             common_specs[k].common_options)

\* C27: in compareResults each source (chatgpt) spec is paired with at most
\* one target (gemini) spec: it contributes at most one entry to common_specs,
\* and with distinct source names no two entries share a spec_name.
SourceSpecPairedAtMostOnce ==
    \A k, l \in 1..Len(cmpPairs) :
        k # l => /\ cmpPairs[k][1] # cmpPairs[l][1]
                 /\ common_specs[k].spec_name # common_specs[l].spec_name

\* the entries of common_specs whose gemini side is the gemini spec at j
entriesOfGemini(j) == {k \in 1..Len(cmpPairs) : cmpPairs[k][2] = j}

\* the entries of common_specs made for the chatgpt spec at i
entriesOfChatgpt(i) == {k \in 1..Len(cmpPairs) : cmpPairs[k][1] = i}

\* C29: compareResults accounts for every gemini spec exactly once: it is the
\* gemini side of exactly one common_specs entry or it is listed in
\* gemini_unique_specs, never both and never neither, so the two lists
\* together have as many entries as there are gemini specs; a chatgpt spec is
\* in chatgpt_unique_specs exactly when it has no common_specs entry.
EveryGeminiSpecAccountedOnce ==
    /\ Len(cmpPairs) = Len(common_specs)
    /\ \A k \in 1..Len(cmpPairs) :
          /\ common_specs[k].chatgpt_name = chatgptAllSpecs[cmpPairs[k][1]].spec_name
          /\ common_specs[k].gemini_name = geminiAllSpecs[cmpPairs[k][2]].spec_name
    /\ cmpPc = "done" =>
          /\ \A j \in 1..Len(geminiAllSpecs) :
                IF Has(gemini_unique_specs, geminiAllSpecs[j])
                THEN entriesOfGemini(j) = {}
                ELSE Cardinality(entriesOfGemini(j)) = 1
          /\ Len(common_specs) + Len(gemini_unique_specs) = Len(geminiAllSpecs)
          /\ \A i \in 1..Len(chatgptAllSpecs) :
                Has(chatgpt_unique_specs, chatgptAllSpecs[i]) <=> entriesOfChatgpt(i) = {}

\* a finished comparison in which a gemini spec similar to two chatgpt specs
\* went to the first of them, the second chatgpt spec stayed unique, and
\* another gemini spec stayed unique
ContestedGeminiSpecCountedOnce ==
    /\ cmpPc = "done"
    /\ common_specs # <<>> /\ chatgpt_unique_specs # <<>> /\ gemini_unique_specs # <<>>
    /\ \E i1, i2 \in 1..Len(chatgptAllSpecs) : \E j \in 1..Len(geminiAllSpecs) :
          /\ i1 < i2
          /\ isSemanticallySimilar("api", chatgptAllSpecs[i1].spec_name, geminiAllSpecs[j].spec_name)
          /\ isSemanticallySimilar("api", chatgptAllSpecs[i2].spec_name, geminiAllSpecs[j].spec_name)
          /\ entriesOfGemini(j) # {}
          /\ Has(chatgpt_unique_specs, chatgptAllSpecs[i2])

(***************************************************************************)
(* getBuyerISQOptions on its own and inside selectStage3BuyerISQs          *)
(***************************************************************************)

InitBuyerOptions == InitBo \/ InitRc

NextBuyerOptions == NextBo \/ NextRc

SpecBuyerOptions == InitBuyerOptions /\ [][NextBuyerOptions]_vars

\* exactly 8 options, pairwise different after lower-casing
eightDistinct(options) ==
    /\ Len(options) = 8
    /\ \A k, l \in 1..Len(options) : k # l => ToLower(options[k]) # ToLower(options[l])

\* C28: getBuyerISQOptions always returns exactly 8 options, pairwise distinct
\* after lower-casing, for any Stage 1 and Stage 2 lists (the empty ones
\* included), because the fallbacks fill the list; so selectStage3BuyerISQs
\* never takes its "fewer than 2 options" skip: each of the first two specs
\* with a common normalized name becomes a buyer ISQ with 8 options.
BuyerISQOptionsAlwaysEight ==
    /\ boPc = "getBuyerISQOptions" => eightDistinct(boResult)
    /\ rcPc = "selectStage3BuyerISQs" =>
          \A common1 \in {sameNormSpecs(flattenStage1(stage1AllSpecs), flattenStage2(stage2ISQs), 1)} :
              /\ Len(buyerISQs) = Min2(2, Len(common1))
              /\ \A k \in 1..Len(buyerISQs) :
                    /\ buyerISQs[k].name = common1[k].name
                    /\ eightDistinct(buyerISQs[k].options)

\* getBuyerISQOptions was called with two empty lists for a name whose
\* fallback list has exactly 8 entries, and returned that list
EmptyListsFilledWithFallbacks ==
    /\ boPc = "getBuyerISQOptions"
    /\ stage1Options = <<>> /\ stage2Options = <<>>
    /\ Len(getSmartFallbacks(boNormName)) = 8
    /\ boResult = getSmartFallbacks(boNormName)

\* the Stage 1 spec at i has the normalized name of some Stage 2 spec
exactNameMatch(i) ==
    \E j \in 1..Len(stage2ISQs) :
        normalizeSpecName("stage3", stage2ISQs[j].name) = stage1AllSpecs[i].normName

\* C30: in extractCommonAndBuyerSpecs, with distinct Stage 1 names, every
\* Stage 1 spec whose normalized name equals the normalized name of some
\* Stage 2 spec appears in commonSpecs once the loop has passed it, whatever
\* the order of the Stage 1 specs and whatever other Stage 1 specs there are.
ExactNameMatchAlwaysCommon ==
    (\A a, b \in 1..Len(stage1AllSpecs) :
        a # b => stage1AllSpecs[a].spec_name # stage1AllSpecs[b].spec_name)
    => \A i \in 1..Len(stage1AllSpecs) :
          (i < rcI /\ rcPc \in {"matching", "done"} /\ exactNameMatch(i))
          => \E k \in 1..Len(commonSpecs) : commonSpecs[k].spec_name = stage1AllSpecs[i].spec_name

====
